---- MODULE Spec2Model ----
(***************************************************************************)
(* A model of the translation pipeline of comply:                          *)
(*   - the section classifier and TranslateDocument (package translate),   *)
(*   - the filename codec (packages render and path),                      *)
(*   - the translate-templates command (package render),                   *)
(*   - translate-for-rendering, renderTranslatedDocument (package render). *)
(* Strings are sequences of one-character strings, so that splitting,      *)
(* joining, trimming and prefix tests are computed as the code computes    *)
(* them.                                                                   *)
(***************************************************************************)
EXTENDS Integers, Sequences, FiniteSets, TLC

VARIABLES
    content,      \* TranslateDocument: the document body handed in
    td,           \* TranslateDocument: the last call and what it returned
    fname,        \* filename codec: the original filename
    tag,          \* filename codec: the language tag
    codec,        \* filename codec: the last encode / decode
    cfg,          \* translate-templates: config.Config().Translation
    fs,           \* translate-templates: the template files on disk
    clock,        \* translate-templates: the wall clock
    run,          \* translate-templates: the TranslateTemplates call in progress
    hist,         \* translate-templates: what the calls did (history)
    docs,         \* translate-for-rendering: the documents (ModifiedAt)
    lastModified, \* translate-for-rendering: the staleness record
    outDir,       \* translate-for-rendering: the files of the output directory
    inv,          \* translate-for-rendering: the invocations so far (history)
    cand,         \* file selection: the candidate file name
    sel,          \* file selection: what getFilesToTranslate returned for it
    prov,         \* provider adapter: the Translate call, its request and response
    batch,        \* batch driver: pdfTranslated / htmlTranslated in progress
    wk,           \* concurrent workers: each goroutine's invocation and position
    jn            \* concurrent batch drivers, their error channel, join and caller

secVars == <<content, td>>
codecVars == <<fname, tag, codec>>
tplVars == <<cfg, fs, clock, run, hist>>
renVars == <<docs, lastModified, outDir, inv>>
selVars == <<cand, sel>>
provVars == <<prov>>
batchVars == <<batch>>
wkVars == <<wk>>
joinVars == <<jn>>
vars == <<content, td, fname, tag, codec, cfg, fs, clock, run, hist,
          docs, lastModified, outDir, inv, cand, sel, prov, batch, wk, jn>>

(***************************************************************************)
(* Bounds of the model.                                                    *)
(***************************************************************************)
MaxLines == 4
MaxNameLen == 3
MaxTagLen == 3
MaxClock == 2
MaxRuns == 2
MaxModTime == 2
MaxBatchRuns == 2

(***************************************************************************)
(* Package strings, on sequences of characters.                            *)
(***************************************************************************)
NL == "\n"

HasPrefix(s, p) == Len(s) >= Len(p) /\ SubSeq(s, 1, Len(p)) = p

HasSuffix(s, p) == Len(s) >= Len(p) /\ SubSeq(s, Len(s) - Len(p) + 1, Len(s)) = p

Contains(s, sub) == \E i \in 0..(Len(s) - Len(sub)) : SubSeq(s, i + 1, i + Len(sub)) = sub

IsSpace(c) == c \in {" ", "\n", "\t", "\r"}

\* strings.TrimSpace: without the leading and the trailing white space.
TrimSpace(s) ==
    LET inked == { i \in 1..Len(s) : ~IsSpace(s[i]) } IN
    IF inked = {} THEN <<>>
    ELSE SubSeq(s, CHOOSE i \in inked : \A j \in inked : i <= j,
                   CHOOSE i \in inked : \A j \in inked : i >= j)

TrimSuffix(s, suffix) ==
    IF HasSuffix(s, suffix) THEN SubSeq(s, 1, Len(s) - Len(suffix)) ELSE s

\* strings.Split(s, sep) for a one-character separator: Split("", sep) is <<"">>.
\* from is where the current part starts, i the character looked at.
RECURSIVE SplitLoop(_, _, _, _, _)
SplitLoop(s, sep, parts, from, i) ==
    IF i > Len(s) THEN Append(parts, SubSeq(s, from, Len(s)))
    ELSE IF s[i] = sep
    THEN SplitLoop(s, sep, Append(parts, SubSeq(s, from, i - 1)), i + 1, i + 1)
    ELSE SplitLoop(s, sep, parts, from, i + 1)

Split(s, sep) == SplitLoop(s, sep, <<>>, 1, 1)

RECURSIVE Join(_, _)
Join(parts, sep) ==
    IF parts = <<>> THEN <<>>
    ELSE IF Len(parts) = 1 THEN parts[1]
    ELSE parts[1] \o <<sep>> \o Join(Tail(parts), sep)

Upper == <<"A", "B", "C", "D", "E", "F", "G", "H", "I", "J", "K", "L", "M",
           "N", "O", "P", "Q", "R", "S", "T", "U", "V", "W", "X", "Y", "Z">>

Lower == <<"a", "b", "c", "d", "e", "f", "g", "h", "i", "j", "k", "l", "m",
           "n", "o", "p", "q", "r", "s", "t", "u", "v", "w", "x", "y", "z">>

ToLower(s) ==
    [i \in 1..Len(s) |->
        IF \E k \in 1..Len(Upper) : Upper[k] = s[i]
        THEN Lower[CHOOSE k \in 1..Len(Upper) : Upper[k] = s[i]]
        ELSE s[i]]

(***************************************************************************)
(* Package translate: provider selection.                                  *)
(***************************************************************************)
OpenAI == <<"o", "p", "e", "n", "a", "i">>
Anthropic == <<"a", "n", "t", "h", "r", "o", "p", "i", "c">>
Ollama == <<"o", "l", "l", "a", "m", "a">>

\* NewProvider: the provider kind selected, or "unsupported" (the error).
NewProvider(providerType) ==
    LET k == ToLower(providerType) IN
    IF k = OpenAI THEN "openai"
    ELSE IF k = Anthropic THEN "anthropic"
    ELSE IF k = Ollama THEN "ollama"
    ELSE "unsupported"

(***************************************************************************)
(* Package translate: the section classifier.                              *)
(***************************************************************************)
Dashes == <<"-", "-", "-">>
\* The backquote cannot be written inside a TLA+ string: the model writes it ^.
Backtick == "^"
Fence == <<Backtick, Backtick, Backtick>>
TableToken == <<"T", "a", "b", "l", "e", ":">>
HeaderIncludes ==
    <<"h", "e", "a", "d", "e", "r", "-", "i", "n", "c", "l", "u", "d", "e", "s", ":">>
UsePackage == <<"\\", "u", "s", "e", "p", "a", "c", "k", "a", "g", "e">>

RECURSIVE extractLoop(_, _, _, _)
extractLoop(lines, i, sections, currentSection) ==
    IF i > Len(lines)
    THEN IF Len(currentSection) > 0
         THEN Append(sections, Join(currentSection, NL))
         ELSE sections
    ELSE IF lines[i] = <<>>
    THEN extractLoop(lines, i + 1,
             Append(IF Len(currentSection) > 0
                    THEN Append(sections, Join(currentSection, NL))
                    ELSE sections,
                    lines[i]),
             <<>>)
    ELSE extractLoop(lines, i + 1, sections, Append(currentSection, lines[i]))

\* An extractSections that trims the body before splitting it into lines.
extractSectionsTrimmed(body) == extractLoop(Split(TrimSpace(body), NL), 1, <<>>, <<>>)

extractSections(body) == extractLoop(Split(body, NL), 1, <<>>, <<>>)

shouldTranslate(sec) ==
    LET section == TrimSpace(sec) IN
    IF section = <<>> THEN FALSE
    ELSE IF HasPrefix(section, Dashes) \/ HasSuffix(section, Dashes) THEN FALSE
    ELSE IF HasPrefix(section, <<"%">>) THEN FALSE
    ELSE IF Contains(section, <<"|">>)
            /\ (Contains(section, Dashes) \/ Contains(section, TableToken)) THEN FALSE
    ELSE IF HasPrefix(section, Fence) \/ HasSuffix(section, Fence) THEN FALSE
    ELSE IF Contains(section, HeaderIncludes) \/ Contains(section, UsePackage) THEN FALSE
    ELSE TRUE

(***************************************************************************)
(* Package translate: TranslateDocument.  The provider is external: its    *)
(* answer to every call is reply (which the adapter trims), except that    *)
(* call number failAt (if any) returns an error.                           *)
(***************************************************************************)
\* A translation loop that trims the sections it keeps as they are.
RECURSIVE translateLoopTrimmed(_, _, _, _, _, _)
translateLoopTrimmed(sections, i, translatedSections, sent, reply, failAt) ==
    IF i > Len(sections)
    THEN [out |-> Join(translatedSections, NL), err |-> "nil", sent |-> sent]
    ELSE IF shouldTranslate(sections[i])
    THEN IF Len(sent) + 1 = failAt
         THEN [out |-> <<>>, err |-> "failed to translate section",
               sent |-> Append(sent, sections[i])]
         ELSE translateLoopTrimmed(sections, i + 1,
                                   Append(translatedSections, TrimSpace(reply)),
                                   Append(sent, sections[i]), reply, failAt)
    ELSE translateLoopTrimmed(sections, i + 1,
                              Append(translatedSections, TrimSpace(sections[i])),
                              sent, reply, failAt)

RECURSIVE translateLoop(_, _, _, _, _, _)
translateLoop(sections, i, translatedSections, sent, reply, failAt) ==
    IF i > Len(sections)
    THEN [out |-> Join(translatedSections, NL), err |-> "nil", sent |-> sent]
    ELSE IF shouldTranslate(sections[i])
    THEN IF Len(sent) + 1 = failAt
         THEN [out |-> <<>>, err |-> "failed to translate section",
               sent |-> Append(sent, sections[i])]
         ELSE translateLoop(sections, i + 1, Append(translatedSections, TrimSpace(reply)),
                            Append(sent, sections[i]), reply, failAt)
    ELSE translateLoop(sections, i + 1, Append(translatedSections, sections[i]),
                       sent, reply, failAt)

TranslateDocument(body, providerType, reply, failAt) ==
    IF NewProvider(providerType) = "unsupported"
    THEN [out |-> <<>>, err |-> "unsupported provider", sent |-> <<>>]
    ELSE translateLoop(extractSections(body), 1, <<>>, <<>>, reply, failAt)

(***************************************************************************)
(* Package translate: TranslateTemplate, TranslateTemplateDirect and       *)
(* cleanDirectTranslationResponse.  The fixed text of the prompt is kept   *)
(* in pieces, each one element of the sequence.                            *)
(***************************************************************************)
structuredPrompt(body, targetLang) ==
    <<"You are a professional translator. Your task is to translate a markdown template document while preserving its exact structure and format.\n\n**Instructions:**\n1. Translate the YAML metadata fields: ",
      Backtick, "name", Backtick, " and ", Backtick, "comment", Backtick, " values to ">>
    \o targetLang
    \o <<"\n2. Translate all content after the ", Backtick, "---", Backtick, " separator to ">>
    \o targetLang
    \o <<"\n3. Keep all other YAML fields unchanged (acronym, satisfies, dates, etc.)\n4. Preserve all markdown formatting, template variables (like {{.Name}}), and document structure\n5. Return only the translated content with no additional comments or explanations\n6. Maintain the exact same line breaks and spacing as the original\n\n**Input document:**\n">>
    \o body
    \o <<"\n\n**Target language:** ">>
    \o targetLang

IsLetter(c) == \E k \in 1..Len(Upper) : Upper[k] = c \/ Lower[k] = c

IsDigit(c) == c \in {"0", "1", "2", "3", "4", "5", "6", "7", "8", "9"}

\* The first index from i on that holds no white space (\s*).
RECURSIVE SkipSpace(_, _)
SkipSpace(s, i) == IF i <= Len(s) /\ IsSpace(s[i]) THEN SkipSpace(s, i + 1) ELSE i

\* (?i)word\s+word...: the index after the match of the words at i, or 0.
RECURSIVE MatchWords(_, _, _)
MatchWords(s, i, words) ==
    LET e == i + Len(words[1]) IN
    IF e - 1 > Len(s) \/ ToLower(SubSeq(s, i, e - 1)) # words[1] THEN 0
    ELSE IF Len(words) = 1 THEN e
    ELSE IF e <= Len(s) /\ IsSpace(s[e]) THEN MatchWords(s, SkipSpace(s, e), Tail(words))
    ELSE 0

\* ReplaceAllString of (?i)^\s*<words>:?\s*\n? by "".
removePrefix(s, words) ==
    LET e == MatchWords(s, SkipSpace(s, 1), words) IN
    IF e = 0 THEN s
    ELSE SubSeq(s, SkipSpace(s, IF e <= Len(s) /\ s[e] = ":" THEN e + 1 ELSE e), Len(s))

prefixPatterns ==
    << << <<"h", "e", "r", "e">>, <<"i", "s">>, <<"t", "h", "e">>, <<"t", "r", "a", "n", "s", "l", "a", "t", "e", "d">>, <<"d", "o", "c", "u", "m", "e", "n", "t">> >>,
       << <<"t", "r", "a", "n", "s", "l", "a", "t", "e", "d">>, <<"d", "o", "c", "u", "m", "e", "n", "t">> >>,
       << <<"r", "e", "s", "u", "l", "t">> >>,
       << <<"t", "r", "a", "n", "s", "l", "a", "t", "i", "o", "n">> >> >>

RECURSIVE removePrefixes(_, _)
removePrefixes(s, k) ==
    IF k > Len(prefixPatterns) THEN s
    ELSE removePrefixes(removePrefix(s, prefixPatterns[k]), k + 1)

\* ^[a-zA-Z][a-zA-Z0-9]*:\s*
looksLikeYAMLField(trimmed) ==
    \E colon \in 2..Len(trimmed) :
        /\ trimmed[colon] = ":"
        /\ IsLetter(trimmed[1])
        /\ \A k \in 2..(colon - 1) : IsLetter(trimmed[k]) \/ IsDigit(trimmed[k])

cleanDirectTranslationResponse(response, original) ==
    LET result == removePrefixes(response, 1)
        lines == Split(result, NL)
        meaningful == { i \in 1..Len(lines) :
                          LET trimmed == TrimSpace(lines[i]) IN
                          \/ trimmed = Dashes
                          \/ looksLikeYAMLField(trimmed)
                          \/ HasPrefix(trimmed, <<"#">>) }
        startIndex == IF meaningful = {} THEN -1
                      ELSE (CHOOSE i \in meaningful : \A j \in meaningful : i <= j) - 1
    IN TrimSpace(IF startIndex > 0
                 THEN Join(SubSeq(lines, startIndex + 1, Len(lines)), NL)
                 ELSE result)

\* One call of the provider with the structured prompt; failAt = 1 when the
\* call returns an error.
TranslateTemplateDirect(body, targetLang, reply, failAt) ==
    IF failAt = 1
    THEN [out |-> <<>>, err |-> "failed to translate template using direct approach",
          sent |-> <<structuredPrompt(body, targetLang)>>]
    ELSE [out |-> cleanDirectTranslationResponse(TrimSpace(reply), body),
          err |-> "nil",
          sent |-> <<structuredPrompt(body, targetLang)>>]

TranslateTemplate(body, targetLang, providerType, reply, failAt) ==
    IF NewProvider(providerType) = "unsupported"
    THEN [out |-> <<>>, err |-> "unsupported provider", sent |-> <<>>]
    ELSE TranslateTemplateDirect(body, targetLang, reply, failAt)

(***************************************************************************)
(* The classifier and TranslateDocument as a state machine: a body is      *)
(* drawn from the lines of LineVocab, then split or translated.            *)
(***************************************************************************)
LineVocab ==
    { <<>>, <<" ">>, <<"a">>, Dashes, Fence, <<"|", "a">>, <<"|", "-", "-", "-">> }

Bodies == { Join(ls, NL) : ls \in UNION { [1..n -> LineVocab] : n \in 1..MaxLines } }

ProviderTypes == { OpenAI, <<"O", "l", "l", "a", "m", "a">>, <<"x">> }

Replies == { <<" ", "T", NL>> }

\* What a provider may answer to the structured prompt: the translation, or
\* the translation after a prefix and a sentence of its own.
DirectReplies ==
    { <<" ", "T", NL>>,
      <<"R", "e", "s", "u", "l", "t", ":", NL, "o", "k", NL, "#", " ", "T">> }

TargetLangs == { <<"p", "t", "-", "B", "R">> }

SecIdle == content = <<>> /\ td = [pc |-> "idle"]

SecInit == content \in Bodies /\ td = [pc |-> "idle"]

\* The classifier alone: the segments of the body, each with its tag.
ClassifyCall ==
    /\ td.pc = "idle"
    /\ td' = [pc |-> "split",
              sections |-> extractSections(content),
              tags |-> [k \in 1..Len(extractSections(content)) |->
                          IF shouldTranslate(extractSections(content)[k])
                          THEN "Translatable" ELSE "Preserved"]]
    /\ UNCHANGED <<content, codecVars, tplVars, renVars, selVars, provVars, batchVars, wkVars, joinVars>>

TranslateDocumentCall ==
    /\ td.pc \in {"idle", "split"}
    /\ \E providerType \in ProviderTypes, reply \in Replies, failAt \in 0..1 :
          LET r == TranslateDocument(content, providerType, reply, failAt) IN
          td' = [pc |-> "done", provider |-> providerType, reply |-> reply,
                 out |-> r.out, err |-> r.err, sent |-> r.sent]
    /\ UNCHANGED <<content, codecVars, tplVars, renVars, selVars, provVars, batchVars, wkVars, joinVars>>

\* translate-templates: TranslateTemplate for the whole body.
TranslateTemplateCall ==
    /\ td.pc = "idle"
    /\ \E providerType \in {Ollama, <<"x">>}, targetLang \in TargetLangs,
          reply \in DirectReplies, failAt \in 0..1 :
          LET r == TranslateTemplate(content, targetLang, providerType, reply, failAt) IN
          \* a call that fails has no answer to vary
          /\ failAt = 1 => reply = <<" ", "T", NL>>
          /\ td' = [pc |-> "direct", lang |-> targetLang,
                    out |-> r.out, err |-> r.err, sent |-> r.sent]
    /\ UNCHANGED <<content, codecVars, tplVars, renVars, selVars, provVars, batchVars, wkVars, joinVars>>

SecNext == ClassifyCall \/ TranslateDocumentCall \/ TranslateTemplateCall

(***************************************************************************)
(* Package path/filepath, for slash-separated paths without trailing       *)
(* slashes and without "." or ".." elements (the only paths of the model). *)
(***************************************************************************)
\* The last index of character c in s, or 0.
LastIndex(s, c) ==
    LET at == { i \in 1..Len(s) : s[i] = c } IN
    IF at = {} THEN 0 ELSE CHOOSE i \in at : \A j \in at : i >= j

Base(path) ==
    IF path = <<>> THEN <<".">>
    ELSE SubSeq(path, LastIndex(path, "/") + 1, Len(path))

Dir(path) ==
    LET slash == LastIndex(path, "/") IN
    IF slash = 0 THEN <<".">> ELSE SubSeq(path, 1, slash - 1)

\* Ext: the suffix beginning at the final dot of the final element, or "".
Ext(path) ==
    LET name == Base(path)
        dot == LastIndex(name, ".")
    IN IF dot = 0 THEN <<>> ELSE SubSeq(name, dot, Len(name))

PathJoin(dir, name) == IF dir = <<".">> THEN name ELSE dir \o <<"/">> \o name

(***************************************************************************)
(* The filename codec: isTemplateFile and generateTranslatedPath (package  *)
(* render), extractLanguageFromFilename (package path).                    *)
(***************************************************************************)
README == <<"R", "E", "A", "D", "M", "E">>
TODO == <<"T", "O", "D", "O">>

\* An isTemplateFile that looks at the README and TODO prefixes only.
isTemplateFilePrefixOnly(path) ==
    ~(HasPrefix(Base(path), README) \/ HasPrefix(Base(path), TODO))

isTemplateFile(path) ==
    LET filename == Base(path)
        parts == Split(filename, ".")
        langPart == parts[Len(parts) - 1]
    IN IF HasPrefix(filename, README) \/ HasPrefix(filename, TODO) THEN FALSE
       ELSE IF Len(parts) >= 3
               /\ Len(langPart) >= 2
               /\ (Contains(langPart, <<"-">>) \/ Len(langPart) = 2) THEN FALSE
       ELSE TRUE

\* The empty string is "no language": the file is an original.
extractLanguageFromFilename(filename, extension) ==
    LET parts == Split(filename, ".")
        langPart == parts[Len(parts) - 1]
    IN IF Len(parts) >= 3
          /\ Len(langPart) >= 2
          /\ (Contains(langPart, <<"-">>) \/ Len(langPart) = 2)
       THEN langPart
       ELSE <<>>

\* A generateTranslatedPath that joins the tag to the name with an underscore,
\* as the rendered artifacts are named.
generateTranslatedPathUnderscore(originalPath, lang) ==
    LET filename == Base(originalPath)
        ext == Ext(filename)
        nameWithoutExt == TrimSuffix(filename, ext)
    IN PathJoin(Dir(originalPath), nameWithoutExt \o <<"_">> \o lang \o ext)

generateTranslatedPath(originalPath, lang) ==
    LET filename == Base(originalPath)
        ext == Ext(filename)
        nameWithoutExt == TrimSuffix(filename, ext)
    IN PathJoin(Dir(originalPath), nameWithoutExt \o <<".">> \o lang \o ext)

(***************************************************************************)
(* The codec as a state machine: a filename and a tag are drawn, the name  *)
(* is encoded, and the encoded name is decoded.                            *)
(***************************************************************************)
RECURSIVE StringsUpTo(_, _)
StringsUpTo(alphabet, n) ==
    IF n = 0 THEN { <<>> }
    ELSE LET shorter == StringsUpTo(alphabet, n - 1) IN
         shorter \cup { Append(s, c) : s \in shorter, c \in alphabet }

NameChars == { "a", ".", "-" }

Names ==
    { pre \o stem : pre \in { <<>>, README, TODO },
                    stem \in StringsUpTo(NameChars, MaxNameLen) } \ { <<>> }

Tags == StringsUpTo(NameChars, MaxTagLen) \ { <<>> }

CodecIdle == fname = <<>> /\ tag = <<>> /\ codec = [pc |-> "idle"]

CodecInit == fname \in Names /\ tag \in Tags /\ codec = [pc |-> "idle"]

Encode ==
    /\ codec.pc = "idle"
    /\ codec' = [pc |-> "encoded", path |-> generateTranslatedPath(fname, tag)]
    /\ UNCHANGED <<fname, tag, secVars, tplVars, renVars, selVars, provVars, batchVars, wkVars, joinVars>>

Decode ==
    /\ codec.pc = "encoded"
    /\ codec' = [pc |-> "decoded", path |-> codec.path,
                 isTemplate |-> isTemplateFile(codec.path),
                 lang |-> extractLanguageFromFilename(codec.path, <<"m", "d">>)]
    /\ UNCHANGED <<fname, tag, secVars, tplVars, renVars, selVars, provVars, batchVars, wkVars, joinVars>>

CodecNext == Encode \/ Decode

(***************************************************************************)
(* translate-templates (package render).  The template files on disk are   *)
(* fs, a function from the paths that exist to [mtime, content].           *)
(***************************************************************************)
PoliciesDir == <<"p", "o", "l", "i", "c", "i", "e", "s">>
ProceduresDir == <<"p", "r", "o", "c", "e", "d", "u", "r", "e", "s">>
NarrativesDir == <<"n", "a", "r", "r", "a", "t", "i", "v", "e", "s">>
DotMd == <<".", "m", "d">>

FileA == PoliciesDir \o <<"/", "a">> \o DotMd
FileB == PoliciesDir \o <<"/", "b">> \o DotMd
FileReadme == PoliciesDir \o <<"/">> \o README \o DotMd
FileMissing == PoliciesDir \o <<"/", "c">> \o DotMd

Es == <<"e", "s">>
PtBR == <<"p", "t", "-", "B", "R">>
Por == <<"p", "o", "r">>

\* Byte order of the characters of the model's paths.
CharOrder == <<"-", ".", "/">> \o Upper \o Lower

CharRank(c) == CHOOSE k \in 1..Len(CharOrder) : CharOrder[k] = c

\* a sorts before b: at the first index where they differ, a has ended or
\* holds the lesser byte.
LessStr(a, b) ==
    LET differ == { i \in 1..Len(b) : i > Len(a) \/ a[i] # b[i] } IN
    /\ differ # {}
    /\ LET first == CHOOSE i \in differ : \A j \in differ : i <= j IN
       first > Len(a) \/ CharRank(a[first]) < CharRank(b[first])

RECURSIVE SortPaths(_)
SortPaths(ps) ==
    IF ps = {} THEN <<>>
    ELSE LET least == CHOOSE x \in ps : \A y \in ps \ {x} : LessStr(x, y) IN
         <<least>> \o SortPaths(ps \ {least})

IsDirectory(files, path) == \E f \in DOMAIN files : HasPrefix(f, path \o <<"/">>)

\* filepath.Walk visits the files beneath dir in lexical order.
WalkTemplates(files, dir) ==
    SortPaths({ f \in DOMAIN files :
                  /\ HasPrefix(f, dir \o <<"/">>)
                  /\ HasSuffix(f, DotMd)
                  /\ isTemplateFile(f) })

\* A getFilesToTranslate that answers a single ineligible file with an empty
\* list and no error.
getFilesToTranslateLenient(files, path) ==
    IF path \notin DOMAIN files /\ ~IsDirectory(files, path)
    THEN [files |-> <<>>, err |-> "path does not exist"]
    ELSE IF IsDirectory(files, path)
    THEN [files |-> WalkTemplates(files, path), err |-> "nil"]
    ELSE IF HasSuffix(path, DotMd) /\ isTemplateFile(path)
    THEN [files |-> <<path>>, err |-> "nil"]
    ELSE [files |-> <<>>, err |-> "nil"]

getFilesToTranslate(files, path) ==
    IF path \notin DOMAIN files /\ ~IsDirectory(files, path)
    THEN [files |-> <<>>, err |-> "path does not exist"]
    ELSE IF IsDirectory(files, path)
    THEN [files |-> WalkTemplates(files, path), err |-> "nil"]
    ELSE IF HasSuffix(path, DotMd) /\ isTemplateFile(path)
    THEN [files |-> <<path>>, err |-> "nil"]
    ELSE [files |-> <<>>, err |-> "file is not a translatable template"]

TemplateDirs == <<PoliciesDir, ProceduresDir, NarrativesDir>>

RECURSIVE allTemplatesLoop(_, _, _)
allTemplatesLoop(files, k, acc) ==
    IF k > Len(TemplateDirs) THEN acc
    ELSE IF ~IsDirectory(files, TemplateDirs[k]) THEN allTemplatesLoop(files, k + 1, acc)
    ELSE allTemplatesLoop(files, k + 1, acc \o WalkTemplates(files, TemplateDirs[k]))

getAllTemplateFiles(files) == [files |-> allTemplatesLoop(files, 1, <<>>), err |-> "nil"]

\* A shouldSkipTranslation that skips only a strictly newer translation.
shouldSkipTranslationStrict(files, originalPath, translatedPath) ==
    IF translatedPath \notin DOMAIN files THEN FALSE
    ELSE IF originalPath \notin DOMAIN files THEN FALSE
    ELSE files[translatedPath].mtime > files[originalPath].mtime

shouldSkipTranslation(files, originalPath, translatedPath) ==
    IF translatedPath \notin DOMAIN files THEN FALSE
    ELSE IF originalPath \notin DOMAIN files THEN FALSE
    ELSE files[translatedPath].mtime > files[originalPath].mtime
         \/ files[translatedPath].mtime = files[originalPath].mtime

WriteTo(files, path, now, what) ==
    [f \in DOMAIN files \cup {path} |->
        IF f = path THEN [mtime |-> now, content |-> what] ELSE files[f]]

\* translateSingleTemplate, with at most one fault of the environment:
\*   "read"      ioutil.ReadFile fails
\*   "provider"  the provider call fails
\*   "open"      ioutil.WriteFile fails opening the target (nothing changes)
\*   "write"     ioutil.WriteFile fails after creating or truncating the target
\* Returns the error, the files afterwards, and whether the provider was
\* called and whether the target was written.
translateSingleTemplate(files, now, filePath, targetLang, provider, fault) ==
    LET translatedPath == generateTranslatedPath(filePath, targetLang)
        same == [fs |-> files, called |-> FALSE, wrote |-> FALSE]
    IN IF fault = "read" \/ filePath \notin DOMAIN files
       THEN same @@ [err |-> "unable to read file"]
       ELSE IF shouldSkipTranslation(files, filePath, translatedPath)
       THEN same @@ [err |-> "nil"]
       ELSE IF NewProvider(provider) = "unsupported"
       THEN same @@ [err |-> "translation failed: unsupported provider"]
       ELSE IF fault = "provider"
       THEN [fs |-> files, called |-> TRUE, wrote |-> FALSE, err |-> "translation failed"]
       ELSE IF fault = "open"
       THEN [fs |-> files, called |-> TRUE, wrote |-> FALSE,
             err |-> "unable to write translated file"]
       ELSE IF fault = "write"
       THEN [fs |-> WriteTo(files, translatedPath, now, "partial"),
             called |-> TRUE, wrote |-> TRUE, err |-> "unable to write translated file"]
       ELSE [fs |-> WriteTo(files, translatedPath, now, "translated"),
             called |-> TRUE, wrote |-> TRUE, err |-> "nil"]

(***************************************************************************)
(* translate-templates as a state machine: one run of the command after    *)
(* the other.  StartRun is TranslateTemplates                               *)
(* up to its loop; TranslateSingleStep is one iteration of the loop, one   *)
(* call of translateSingleTemplate, with the return that follows it.       *)
(***************************************************************************)
NilTranslation == [isNil |-> TRUE, Enabled |-> FALSE, Languages |-> <<>>, Provider |-> <<>>]

MixedOllama == <<"O", "l", "l", "a", "m", "a">>

Translation(enabled, languages, provider) ==
    [isNil |-> FALSE, Enabled |-> enabled, Languages |-> languages, Provider |-> provider]

SourceFile == [mtime |-> 1, content |-> "source"]

Sources(paths) == [f \in paths |-> SourceFile]

\* A source whose modification time is ahead of the clock the runs start at.
FutureFile == [mtime |-> 2, content |-> "source"]

\* The projects a behaviour starts from: the configuration with the files.
Projects ==
    { <<NilTranslation, Sources({FileReadme, FileA, FileB})>>,
      <<Translation(FALSE, <<Es>>, Ollama), Sources({FileReadme, FileA, FileB})>>,
      <<Translation(TRUE, <<>>, Ollama), Sources({FileReadme, FileA, FileB})>>,
      <<Translation(TRUE, <<Es, PtBR>>, <<>>), Sources({FileReadme, FileA, FileB})>>,
      <<Translation(TRUE, <<Es, PtBR>>, MixedOllama), Sources({FileReadme, FileA, FileB})>>,
      <<Translation(TRUE, <<Es, PtBR>>, MixedOllama), Sources({FileReadme})>>,
      <<Translation(TRUE, <<Por>>, MixedOllama), Sources({FileReadme, FileA})>>,
      <<Translation(TRUE, <<Es>>, MixedOllama), [f \in {FileA} |-> FutureFile]>> }

PathArgs == { <<>>, PoliciesDir, FileA, FileReadme, FileMissing }

ProviderArgs == { <<>>, <<"x">> }

Faults == { "none", "read", "provider", "open", "write" }

NoEvent == [n |-> 0]

IdleRun == [pc |-> "idle"]

FreshHist ==
    [runs |-> 0, fsAccess |-> FALSE, calls |-> 0, writes |-> 0, errs |-> 0,
     written |-> {},
     last |-> NoEvent, repeat |-> FALSE, prevClock |-> 0, okPath |-> <<"none">>,
     okClock |-> 0]

TplIdle ==
    /\ cfg = NilTranslation
    /\ fs = <<>>
    /\ clock = 0
    /\ run = IdleRun
    /\ hist = FreshHist

TplInit ==
    /\ \E project \in Projects : cfg = project[1] /\ fs = project[2]
    /\ clock = 1
    /\ run = IdleRun
    /\ hist = FreshHist

\* A resolution that prefers the configured provider to the override.
resolveProviderConfigFirst(translation, provider) ==
    IF translation.Provider = <<>> THEN provider ELSE translation.Provider

\* providerToUse, for an enabled translation block.
resolveProvider(translation, provider) ==
    IF provider = <<>> THEN translation.Provider ELSE provider

\* The configuration checks and the file set: what TranslateTemplates has
\* decided when it reaches its loop, or the error it returned before.
TranslateTemplatesHead(translation, files, path, provider) ==
    LET enabled == ~translation.isNil /\ translation.Enabled
        languages == IF enabled THEN translation.Languages ELSE <<>>
        providerToUse ==
            IF ~enabled THEN <<>>
            ELSE resolveProvider(translation, provider)
        got == IF path # <<>> THEN getFilesToTranslate(files, path)
               ELSE getAllTemplateFiles(files)
        cut == [filesToTranslate |-> <<>>, languages |-> languages,
                providerToUse |-> providerToUse, fsAccess |-> FALSE]
    IN IF ~enabled
       THEN cut @@ [pc |-> "done", err |-> "translation not enabled in comply.yml"]
       ELSE IF Len(languages) = 0
       THEN cut @@ [pc |-> "done", err |-> "no languages configured for translation"]
       ELSE IF providerToUse = <<>>
       THEN cut @@ [pc |-> "done", err |-> "no translation provider specified"]
       ELSE IF got.err # "nil"
       THEN [cut EXCEPT !.fsAccess = TRUE]
            @@ [pc |-> "done", err |-> "unable to get files"]
       ELSE IF Len(got.files) = 0
       THEN [cut EXCEPT !.fsAccess = TRUE] @@ [pc |-> "done", err |-> "nil"]
       ELSE [cut EXCEPT !.fsAccess = TRUE, !.filesToTranslate = got.files]
            @@ [pc |-> "loop", err |-> "nil"]

\* A loop that notes the first failure and goes on with the pairs left.
AfterPairContinue(r, err, file, lang) ==
    LET lastPair == r.i = Len(r.filesToTranslate) /\ r.j = Len(r.languages)
        noted == IF err # "nil" /\ r.err = "nil"
                 THEN [r EXCEPT !.err = "failed to translate",
                                !.errFile = file, !.errLang = lang]
                 ELSE r
    IN IF lastPair THEN [noted EXCEPT !.pc = "done"]
       ELSE IF r.j < Len(r.languages) THEN [noted EXCEPT !.j = r.j + 1]
       ELSE [noted EXCEPT !.i = r.i + 1, !.j = 1]

\* The loop of TranslateTemplates after translateSingleTemplate(file, lang)
\* has returned err: return the wrapped error, return nil after the last
\* pair, or go on to the next pair.
AfterPair(r, err, file, lang) ==
    LET lastPair == r.i = Len(r.filesToTranslate) /\ r.j = Len(r.languages)
    IN IF err # "nil"
       THEN [r EXCEPT !.pc = "done", !.err = "failed to translate",
                      !.errFile = file, !.errLang = lang]
       ELSE IF lastPair THEN [r EXCEPT !.pc = "done", !.err = "nil"]
       ELSE IF r.j < Len(r.languages) THEN [r EXCEPT !.j = r.j + 1]
       ELSE [r EXCEPT !.i = r.i + 1, !.j = 1]

StartRun ==
    /\ run.pc = "idle"
    /\ hist.runs < MaxRuns
    /\ \E path \in PathArgs, provider \in ProviderArgs :
          LET h == TranslateTemplatesHead(cfg, fs, path, provider) IN
          /\ run' = [pc |-> h.pc, err |-> h.err, errFile |-> <<>>, errLang |-> <<>>,
                     path |-> path, provider |-> provider,
                     filesToTranslate |-> h.filesToTranslate, languages |-> h.languages,
                     providerToUse |-> h.providerToUse, i |-> 1, j |-> 1]
          /\ hist' = [runs |-> hist.runs + 1, fsAccess |-> h.fsAccess, calls |-> 0,
                      writes |-> 0, errs |-> 0, written |-> {}, last |-> NoEvent,
                      repeat |-> (hist.okPath = path), prevClock |-> hist.okClock,
                      okPath |-> IF h.pc = "done" /\ h.err = "nil" THEN path
                                 ELSE <<"none">>,
                      okClock |-> clock]
    /\ UNCHANGED <<cfg, fs, clock, secVars, codecVars, renVars, selVars, provVars, batchVars, wkVars, joinVars>>

TranslateSingleStep ==
    /\ run.pc = "loop"
    /\ \E fault \in Faults :
          LET file == run.filesToTranslate[run.i]
              lang == run.languages[run.j]
              target == generateTranslatedPath(file, lang)
              r == translateSingleTemplate(fs, clock, file, lang, run.providerToUse, fault)
              next == AfterPair(run, r.err, file, lang)
          IN
          /\ fs' = r.fs
          /\ run' = next
          /\ hist' = [hist EXCEPT
                !.fsAccess = TRUE,
                !.calls = hist.calls + (IF r.called THEN 1 ELSE 0),
                !.writes = hist.writes + (IF r.wrote THEN 1 ELSE 0),
                !.errs = hist.errs + (IF r.err # "nil" THEN 1 ELSE 0),
                !.written = IF r.wrote /\ r.err = "nil" THEN hist.written \cup {target}
                            ELSE hist.written,
                !.last = [n |-> hist.last.n + 1, file |-> file, lang |-> lang,
                          target |-> target,
                          upToDate |-> /\ target \in DOMAIN fs
                                       /\ fs[target].mtime >= fs[file].mtime,
                          existed |-> target \in DOMAIN fs,
                          changed |-> (target \in DOMAIN fs) # (target \in DOMAIN r.fs)
                                      \/ (target \in DOMAIN fs /\ fs[target] # r.fs[target]),
                          called |-> r.called, wrote |-> r.wrote, err |-> r.err],
                !.okPath = IF next.pc = "done" /\ next.err = "nil" THEN run.path
                           ELSE <<"none">>]
    /\ UNCHANGED <<cfg, clock, secVars, codecVars, renVars, selVars, provVars, batchVars, wkVars, joinVars>>

\* The command has returned and the process ends; what is kept is history.
ProcessExit ==
    /\ run.pc = "done"
    /\ run' = IdleRun
    /\ hist' = [FreshHist EXCEPT !.runs = hist.runs, !.okPath = hist.okPath,
                                 !.okClock = hist.okClock]
    /\ UNCHANGED <<cfg, fs, clock, secVars, codecVars, renVars, selVars, provVars, batchVars, wkVars, joinVars>>

\* Time passes between two runs.
Tick ==
    /\ run.pc = "idle"
    /\ clock < MaxClock
    /\ clock' = clock + 1
    /\ UNCHANGED <<cfg, fs, run, hist, secVars, codecVars, renVars, selVars, provVars, batchVars, wkVars, joinVars>>

\* Between two runs the user edits a source template.
TouchSource ==
    /\ run.pc = "idle"
    /\ \E f \in {FileA, FileB} \cap DOMAIN fs :
          /\ fs[f].mtime < clock
          /\ fs' = [fs EXCEPT ![f].mtime = clock]
    /\ hist' = [hist EXCEPT !.okPath = <<"none">>]
    /\ UNCHANGED <<cfg, clock, run, secVars, codecVars, renVars, selVars, provVars, batchVars, wkVars, joinVars>>

TplNext == StartRun \/ TranslateSingleStep \/ ProcessExit \/ Tick \/ TouchSource

(***************************************************************************)
(* The staleness tracker: a map from source path to the modification time  *)
(* last recorded for it.                                                   *)
(***************************************************************************)
isNewer(records, path, t) == path \notin DOMAIN records \/ t > records[path]

recordModified(records, path, t) ==
    [p \in DOMAIN records \cup {path} |-> IF p = path THEN t ELSE records[p]]

(***************************************************************************)
(* translate-for-rendering (package render).  outDir is the set of files   *)
(* of the output directory.                                                *)
(***************************************************************************)
OutputDir == <<"o", "u", "t", "p", "u", "t">>
DotPdf == <<".", "p", "d", "f">>
DotHtml == <<".", "h", "t", "m", "l">>

\* The existing pandoc function renders <output>/<name>.md to <output>/<name>.pdf
\* and reports on errCh; fault "render" is its failure.
pandoc(name, fault) ==
    [call |-> [input |-> PathJoin(OutputDir, name \o DotMd),
               output |-> PathJoin(OutputDir, name \o DotPdf)],
     err |-> IF fault = "render" THEN "pandoc failed" ELSE "nil"]

\* runPandoc: the renderer calls made (at most one), and the error read from errCh.
runPandoc(args, fault) ==
    IF Len(args) >= 2 /\ HasSuffix(args[Len(args) - 1], DotPdf)
    THEN LET outputFile == Base(args[Len(args) - 1])
             r == pandoc(TrimSuffix(outputFile, DotPdf), fault)
         IN [calls |-> <<r.call>>, err |-> r.err]
    ELSE IF Len(args) >= 2 /\ HasSuffix(args[Len(args) - 1], DotHtml)
    THEN [calls |-> <<>>, err |-> "nil"]
    ELSE [calls |-> <<>>, err |-> "unsupported pandoc output format"]

generateTranslatedPDF(mdPath, outputDir, outputFilename, targetLang, fault) ==
    LET outputPath == PathJoin(outputDir, outputFilename \o <<"_">> \o targetLang \o DotPdf)
    IN runPandoc(<<"-f", "markdown+smart", "--toc", "-N", "--template",
                   "templates/default.latex", "-o", outputPath, mdPath>>, fault)

generateTranslatedHTML(mdPath, outputDir, outputFilename, targetLang, fault) ==
    LET outputPath == PathJoin(outputDir, outputFilename \o <<"_">> \o targetLang \o DotHtml)
    IN runPandoc(<<"-f", "markdown+smart", "--toc", "-N", "-s", "-o", outputPath, mdPath>>,
                 fault)

\* A clean-up that removes the translated markdown only.
removeTranslatedOnly(files, preprocessedPath, translatedPath) == files \ {translatedPath}

\* Clean up temporary files: the two os.Remove calls.
removeIntermediates(files, preprocessedPath, translatedPath) ==
    files \ {preprocessedPath, translatedPath}

\* The body of renderTranslatedDocument after its staleness check, for the
\* document at fullPath (output stem outputFilename, modification time
\* modifiedAt), with at most one fault of the environment: "preprocess",
\* "read", "provider", "open" or "write" (ioutil.WriteFile failing before or
\* after it creates the file), "render".
translatedPipeline(records, files, fullPath, outputFilename, modifiedAt, outputDir, targetLang, provider, format, fault) ==
    LET preprocessedPath == PathJoin(outputDir, outputFilename \o DotMd)
        translatedPath ==
            PathJoin(outputDir, outputFilename \o <<"_">> \o targetLang \o DotMd)
        recorded == recordModified(records, fullPath, modifiedAt)
        body == [skipped |-> FALSE, records |-> recorded, providerCalls |-> 0,
                 rendererCalls |-> <<>>]
        gen == IF format = "pdf"
               THEN generateTranslatedPDF(translatedPath, outputDir, outputFilename,
                                          targetLang, fault)
               ELSE IF format = "html"
               THEN generateTranslatedHTML(translatedPath, outputDir, outputFilename,
                                           targetLang, fault)
               ELSE [calls |-> <<>>, err |-> "nil"]
        \* what the renderer calls leave in the output directory
        artifacts == IF gen.err = "nil"
                     THEN { gen.calls[k].output : k \in 1..Len(gen.calls) }
                     ELSE {}
    IN IF fault = "preprocess"
       THEN body @@ [files |-> files,
                     err |-> "unable to preprocess document for translation"]
       ELSE IF fault = "read"
       THEN body @@ [files |-> files \cup {preprocessedPath},
                     err |-> "unable to read preprocessed document"]
       ELSE IF NewProvider(provider) = "unsupported"
       THEN body @@ [files |-> files \cup {preprocessedPath},
                     err |-> "translation failed for document"]
       ELSE IF fault = "provider"
       THEN [body EXCEPT !.providerCalls = 1]
            @@ [files |-> files \cup {preprocessedPath},
                err |-> "translation failed for document"]
       ELSE IF fault = "open"
       THEN [body EXCEPT !.providerCalls = 1]
            @@ [files |-> files \cup {preprocessedPath},
                err |-> "unable to write translated markdown"]
       ELSE IF fault = "write"
       THEN [body EXCEPT !.providerCalls = 1]
            @@ [files |-> files \cup {preprocessedPath, translatedPath},
                err |-> "unable to write translated markdown"]
       ELSE IF gen.err # "nil"
       THEN [body EXCEPT !.providerCalls = 1, !.rendererCalls = gen.calls]
            @@ [files |-> files \cup {preprocessedPath, translatedPath},
                err |-> gen.err]
       ELSE [body EXCEPT !.providerCalls = 1, !.rendererCalls = gen.calls]
            @@ [files |-> removeIntermediates(files \cup artifacts, preprocessedPath,
                                              translatedPath),
                err |-> "nil"]

\* A renderTranslatedDocument that never consults the staleness tracker.
renderTranslatedDocumentUngated(records, files, fullPath, outputFilename, modifiedAt, outputDir, targetLang, provider, format, fault) ==
    translatedPipeline(records, files, fullPath, outputFilename, modifiedAt,
                       outputDir, targetLang, provider, format, fault)

renderTranslatedDocument(records, files, fullPath, outputFilename, modifiedAt, outputDir, targetLang, provider, format, fault) ==
    IF ~isNewer(records, fullPath, modifiedAt)
    THEN [skipped |-> TRUE, records |-> records, providerCalls |-> 0,
          rendererCalls |-> <<>>, files |-> files, err |-> "nil"]
    ELSE translatedPipeline(records, files, fullPath, outputFilename, modifiedAt,
                            outputDir, targetLang, provider, format, fault)

(***************************************************************************)
(* translate-for-rendering as a state machine: invocations of              *)
(* renderTranslatedDocument, one after the other, within one process, and  *)
(* the user changing a document between them.                              *)
(***************************************************************************)
Documents ==
    { [FullPath |-> FileA, OutputFilename |-> <<"a">>],
      [FullPath |-> FileB, OutputFilename |-> <<"b">>] }

RenderLangs == { PtBR }

Formats == { "pdf", "html", "docx" }

RenderFaults == { "none", "preprocess", "read", "provider", "open", "write", "render" }

NoInvocation == [none |-> TRUE]

RenIdle ==
    /\ docs = <<>>
    /\ lastModified = <<>>
    /\ outDir = {}
    /\ inv = [last |-> NoInvocation, ran |-> {}, again |-> FALSE]

RenInit ==
    /\ docs = [d \in Documents |-> 1]
    /\ lastModified = <<>>
    /\ outDir = {}
    /\ inv = [last |-> NoInvocation, ran |-> {}, again |-> FALSE]

\* The provider kind and the fault of one invocation: no fault is drawn for
\* an unsupported kind, whose error comes first.
RenderInputs == { <<Ollama, f>> : f \in RenderFaults } \cup { << <<"x">>, "none">> }

\* inv.ran holds the (path, modification time) pairs whose pipeline body has
\* run; inv.again says that some body has run a second time for its pair.
RenderTranslatedDocumentCall ==
    /\ inv.last.none
    /\ \E doc \in Documents, targetLang \in RenderLangs, input \in RenderInputs,
       format \in Formats :
        LET r == renderTranslatedDocument(lastModified, outDir, doc.FullPath,
                     doc.OutputFilename, docs[doc], OutputDir, targetLang, input[1],
                     format, input[2])
        IN
        /\ lastModified' = r.records
        /\ outDir' = r.files
        /\ inv' = [last |-> [none |-> FALSE, doc |-> doc, modifiedAt |-> docs[doc],
                             lang |-> targetLang, format |-> format,
                             earlier |-> (\E e \in inv.ran :
                                             e[1] = doc.FullPath /\ e[2] >= docs[doc]),
                             skipped |-> r.skipped, err |-> r.err,
                             providerCalls |-> r.providerCalls,
                             rendererCalls |-> r.rendererCalls,
                             sameRecords |-> (r.records = lastModified),
                             sameFiles |-> (r.files = outDir),
                             noneDeleted |-> (outDir \subseteq r.files)],
                   ran |-> IF r.skipped THEN inv.ran
                           ELSE inv.ran \cup {<<doc.FullPath, docs[doc]>>},
                   again |-> inv.again
                             \/ (~r.skipped /\ <<doc.FullPath, docs[doc]>> \in inv.ran)]
    /\ UNCHANGED <<docs, secVars, codecVars, tplVars, selVars, provVars, batchVars, wkVars, joinVars>>

\* The caller has taken the result of the invocation.
RenderReturn ==
    /\ ~inv.last.none
    /\ inv' = [inv EXCEPT !.last = NoInvocation]
    /\ UNCHANGED <<docs, lastModified, outDir, secVars, codecVars, tplVars, selVars, provVars, batchVars, wkVars, joinVars>>

\* The user saves a document, or restores an older copy of it.
ModifyDocument ==
    /\ inv.last.none
    /\ \E doc \in Documents, t \in 1..MaxModTime :
          /\ t # docs[doc]
          /\ docs' = [docs EXCEPT ![doc] = t]
    /\ UNCHANGED <<lastModified, outDir, inv, secVars, codecVars, tplVars, selVars, provVars, batchVars, wkVars, joinVars>>

RenNext == RenderTranslatedDocumentCall \/ RenderReturn \/ ModifyDocument

(***************************************************************************)
(* Package translate: the three provider adapters, Translate and           *)
(* makeRequest.  A JSON value is a record with its kind; what              *)
(* json.Unmarshal puts in a map[string]interface{} is looked up by Field.  *)
(***************************************************************************)
JString(v) == [kind |-> "string", v |-> v]
JNumber == [kind |-> "number"]
JNull == [kind |-> "null"]
JArray(items) == [kind |-> "array", items |-> items]
JObject(fields) == [kind |-> "object", fields |-> fields]
NotJSON == [kind |-> "invalid"]

\* m[name] of a Go map: nil for a key that is absent, and for a nil map.
Field(m, name) ==
    IF m.kind = "object" /\ name \in DOMAIN m.fields THEN m.fields[name] ELSE JNull

http_StatusOK == 200

\* The status code as the text a message would carry.
Itoa(status) ==
    CASE status = 200 -> "200"
      [] status = 201 -> "201"
      [] status = 401 -> "401"
      [] status = 500 -> "500"

NilError == [msg |-> "nil", args |-> <<>>]

Errorf(msg, args) == [msg |-> msg, args |-> args]

NoText == [ok |-> FALSE, text |-> <<>>]

Returned(text, err) == [text |-> text, err |-> err, panic |-> FALSE]

\* The process has died of a runtime panic: nothing is returned.
Panicked == [text |-> NoText, err |-> NilError, panic |-> TRUE]

Unexpected == Returned(NoText, Errorf("unexpected response format", <<>>))

\* json.Unmarshal(body, &response) for response a map[string]interface{}:
\* a JSON object gives the map, JSON null leaves the nil map, anything else
\* is an error.
Unmarshal(parsed) ==
    IF parsed.kind = "object" THEN [err |-> FALSE, response |-> parsed]
    ELSE IF parsed.kind = "null" THEN [err |-> FALSE, response |-> JNull]
    ELSE [err |-> TRUE, response |-> JNull]

\* What each makeRequest does with the map of a 200 response.
extractOpenAI(response) ==
    LET choices == Field(response, "choices") IN
    IF choices.kind = "array" /\ Len(choices.items) > 0
    THEN LET choice == choices.items[1] IN
         IF choice.kind = "object"
         THEN LET message == Field(choice, "message") IN
              IF message.kind = "object"
              THEN LET contentValue == Field(message, "content") IN
                   IF contentValue.kind = "string"
                   THEN Returned([ok |-> TRUE, text |-> TrimSpace(contentValue.v)], NilError)
                   ELSE Unexpected
              ELSE Unexpected
         ELSE Unexpected
    ELSE Unexpected

extractAnthropic(response) ==
    LET contentValue == Field(response, "content") IN
    IF contentValue.kind = "array" /\ Len(contentValue.items) > 0
    THEN LET item == contentValue.items[1] IN
         IF item.kind = "object"
         THEN LET text == Field(item, "text") IN
              IF text.kind = "string"
              THEN Returned([ok |-> TRUE, text |-> TrimSpace(text.v)], NilError)
              ELSE Unexpected
         ELSE Unexpected
    ELSE Unexpected

\* response["response"].(string) panics when the value is not a string.
extractOllama(response) ==
    LET r == Field(response, "response") IN
    IF r.kind # "null"
    THEN IF r.kind = "string"
         THEN Returned([ok |-> TRUE, text |-> TrimSpace(r.v)], NilError)
         ELSE Panicked
    ELSE Unexpected

\* makeRequest up to client.Do: the headers each variant sets.
makeRequestHeaders(variant, APIKey) ==
    IF variant = "openai"
    THEN ("Content-Type" :> <<"application/json">>)
         @@ ("Authorization" :> <<"Bearer ", APIKey>>)
    ELSE IF variant = "anthropic"
    THEN ("Content-Type" :> <<"application/json">>)
         @@ ("Authorization" :> <<"Bearer ", APIKey>>)
         @@ ("anthropic-version" :> <<"2023-06-01">>)
    ELSE ("Content-Type" :> <<"application/json">>)

requestURL(variant) ==
    IF variant = "openai" THEN "https://api.openai.com/v1/chat/completions"
    ELSE IF variant = "anthropic" THEN "https://api.anthropic.com/v1/messages"
    ELSE "http://localhost:11434/api/generate"

\* makeRequest from client.Do on: the transport error, the status check,
\* json.Unmarshal, and the extraction of the variant.
makeRequest(variant, transportFails, status, raw, parsed) ==
    IF transportFails THEN Returned(NoText, Errorf("transport", <<>>))
    ELSE IF status # http_StatusOK
    THEN Returned(NoText, Errorf("API request failed: %s", <<raw>>))
    ELSE IF Unmarshal(parsed).err THEN Returned(NoText, Errorf("json", <<>>))
    ELSE IF variant = "openai" THEN extractOpenAI(Unmarshal(parsed).response)
    ELSE IF variant = "anthropic" THEN extractAnthropic(Unmarshal(parsed).response)
    ELSE extractOllama(Unmarshal(parsed).response)

(***************************************************************************)
(* A provider adapter as a state machine: Translate sends its request, the *)
(* server answers (or the transport fails), makeRequest returns.           *)
(***************************************************************************)
Variants == { "openai", "anthropic", "ollama" }

APIKeys == { "sk-1" }

StatusCodes == { 200, 201, 401, 500 }

T1 == <<" ", "T", NL>>

\* The response bodies: the raw text and what it parses to.
ResponseBodies ==
    << [raw |-> "<html>", parsed |-> NotJSON],
       [raw |-> "null", parsed |-> JNull],
       [raw |-> "[1]", parsed |-> JArray(<<JNumber>>)],
       [raw |-> "{}", parsed |-> JObject(<<>>)],
       [raw |-> "{error:unauthorized}",
        parsed |-> JObject([error |-> JString(<<"u">>)])],
       [raw |-> "{response:T}", parsed |-> JObject([response |-> JString(T1)])],
       [raw |-> "{response:42}", parsed |-> JObject([response |-> JNumber])],
       [raw |-> "{response:null}", parsed |-> JObject([response |-> JNull])],
       [raw |-> "{content:[{text:T}]}",
        parsed |-> JObject([content |-> JArray(<<JObject([text |-> JString(T1)])>>)])],
       [raw |-> "{content:[]}", parsed |-> JObject([content |-> JArray(<<>>)])],
       [raw |-> "{content:[{text:42}]}",
        parsed |-> JObject([content |-> JArray(<<JObject([text |-> JNumber])>>)])],
       [raw |-> "{content:T}", parsed |-> JObject([content |-> JString(T1)])],
       [raw |-> "{choices:[{message:{content:T}}]}",
        parsed |-> JObject([choices |-> JArray(<<JObject([message |->
                       JObject([content |-> JString(T1)])])>>)])],
       [raw |-> "{choices:[]}", parsed |-> JObject([choices |-> JArray(<<>>)])],
       [raw |-> "{choices:[{message:{content:42}}]}",
        parsed |-> JObject([choices |-> JArray(<<JObject([message |->
                       JObject([content |-> JNumber])])>>)])],
       [raw |-> "{choices:[{message:T}]}",
        parsed |-> JObject([choices |-> JArray(<<JObject([message |-> JString(T1)])>>)])] >>

ProvIdle == prov = [pc |-> "idle"]

\* Translate up to client.Do: the request is on its way.
TranslateSend ==
    /\ prov.pc = "idle"
    /\ \E variant \in Variants, APIKey \in APIKeys :
          prov' = [pc |-> "sent", variant |-> variant, APIKey |-> APIKey,
                   url |-> requestURL(variant),
                   headers |-> makeRequestHeaders(variant, APIKey)]
    /\ UNCHANGED <<secVars, codecVars, tplVars, renVars, selVars, batchVars, wkVars, joinVars>>

\* The answer arrives (or the transport fails) and makeRequest returns.
TranslateReceive ==
    /\ prov.pc = "sent"
    /\ \E transportFails \in BOOLEAN, status \in StatusCodes,
          b \in 1..Len(ResponseBodies) :
          /\ transportFails => status = 200 /\ b = 1
          /\ prov' = [pc |-> "done", variant |-> prov.variant, APIKey |-> prov.APIKey,
                      url |-> prov.url, headers |-> prov.headers,
                      transportFails |-> transportFails,
                      status |-> status, body |-> b,
                      result |-> makeRequest(prov.variant, transportFails, status,
                                     ResponseBodies[b].raw, ResponseBodies[b].parsed)]
    /\ UNCHANGED <<secVars, codecVars, tplVars, renVars, selVars, batchVars, wkVars, joinVars>>

ProvNext == TranslateSend \/ TranslateReceive

(***************************************************************************)
(* File selection as a state machine: a candidate name is drawn; it sits   *)
(* in the policies directory next to patch.md and patch.pt-BR.md, and      *)
(* getFilesToTranslate is called on the directory or on the file itself.   *)
(***************************************************************************)
PatchMd == <<"p", "a", "t", "c", "h">> \o DotMd
PatchPtBRMd == <<"p", "a", "t", "c", "h", ".">> \o PtBR \o DotMd

CandidateExts == { DotMd, <<".", "t">>, <<>> }

Candidates ==
    { pre \o stem \o ext : pre \in { <<>>, README, TODO },
                           stem \in StringsUpTo(NameChars, MaxNameLen),
                           ext \in CandidateExts } \ { <<>> }

InPolicies(name) == PathJoin(PoliciesDir, name)

SelFiles(name) == Sources({ InPolicies(name), InPolicies(PatchMd), InPolicies(PatchPtBRMd) })

SelIdle == cand = <<>> /\ sel = [pc |-> "idle"]

SelInit == cand \in Candidates /\ sel = [pc |-> "idle"]

\* translate-templates --path policies
SelectDirectory ==
    /\ sel.pc = "idle"
    /\ sel' = [pc |-> "done", arg |-> "dir", path |-> PoliciesDir,
               files |-> SelFiles(cand),
               result |-> getFilesToTranslate(SelFiles(cand), PoliciesDir)]
    /\ UNCHANGED <<cand, secVars, codecVars, tplVars, renVars, provVars, batchVars, wkVars, joinVars>>

\* translate-templates --path policies/<candidate>
SelectFile ==
    /\ sel.pc = "idle"
    /\ sel' = [pc |-> "done", arg |-> "file", path |-> InPolicies(cand),
               files |-> SelFiles(cand),
               result |-> getFilesToTranslate(SelFiles(cand), InPolicies(cand))]
    /\ UNCHANGED <<cand, secVars, codecVars, tplVars, renVars, provVars, batchVars, wkVars, joinVars>>

SelNext == SelectDirectory \/ SelectFile

(***************************************************************************)
(* The batch drivers pdfTranslated and htmlTranslated (package render) as  *)
(* a state machine.  An invocation loads the render data, walks policies,  *)
(* procedures and narratives in that order (the three loops are one walk   *)
(* of worklist), sends one value on errOutputCh and, returning, runs the   *)
(* deferred wg.Done.  Invocations follow one another within one process:   *)
(* the staleness records and the output directory persist.                 *)
(***************************************************************************)
PolicyA == [Name |-> "Policy A", FullPath |-> FileA, OutputFilename |-> <<"a">>]
PolicyB == [Name |-> "Policy B", FullPath |-> FileB, OutputFilename |-> <<"b">>]
ProcedureC == [Name |-> "Procedure C", FullPath |-> PathJoin(ProceduresDir, <<"c">> \o DotMd), OutputFilename |-> <<"c">>]
NarrativeD == [Name |-> "Narrative D", FullPath |-> PathJoin(NarrativesDir, <<"d">> \o DotMd), OutputFilename |-> <<"d">>]

BatchDocuments == { PolicyA, PolicyB, ProcedureC, NarrativeD }

\* What getRenderData may load.
RenderDatas ==
    { [Policies |-> <<PolicyA, PolicyB>>, Procedures |-> <<ProcedureC>>, Narratives |-> <<NarrativeD>>],
      [Policies |-> <<>>, Procedures |-> <<>>, Narratives |-> <<NarrativeD>>],
      [Policies |-> <<>>, Procedures |-> <<>>, Narratives |-> <<>>] }

Drivers == { "pdfTranslated", "htmlTranslated" }

driverFormat(driver) == IF driver = "pdfTranslated" THEN "pdf" ELSE "html"

Labelled(kind, ds) == [k \in 1..Len(ds) |-> [kind |-> kind, doc |-> ds[k]]]

\* The documents in the order the three loops visit them.
worklist(data) ==
    Labelled("policy", data.Policies) \o Labelled("procedure", data.Procedures)
        \o Labelled("narrative", data.Narratives)

\* An error value on errOutputCh: errors.Wrap(f)(cause, msg, name), or nil.
NilErr == [msg |-> "nil", name |-> "", cause |-> "nil"]

Wrapf(cause, msg, name) == [msg |-> msg, name |-> name, cause |-> cause]

wrapMessage(kind) ==
    IF kind = "policy" THEN "unable to render translated policy: %s"
    ELSE IF kind = "procedure" THEN "unable to render translated procedure: %s"
    ELSE "unable to render translated narrative: %s"

\* A loop body that goes on to the next document whatever the invocation
\* returned.
afterDocumentContinue(b, item, err) ==
    [b EXCEPT !.i = b.i + 1, !.results = Append(b.results, err)]

\* The loop body after renderTranslatedDocument has returned err for item.
afterDocument(b, item, err) ==
    IF err # "nil"
    THEN [b EXCEPT !.pc = "sending", !.results = Append(b.results, err),
                   !.pending = Wrapf(err, wrapMessage(item.kind), item.doc.Name)]
    ELSE [b EXCEPT !.i = b.i + 1, !.results = Append(b.results, err)]

BatchIdle == batch = [pc |-> "idle"]

BatchInit ==
    /\ docs = [d \in BatchDocuments |-> 1]
    /\ lastModified = <<>>
    /\ outDir = {}
    /\ inv = [last |-> NoInvocation, ran |-> {}, again |-> FALSE]
    /\ batch \in { [pc |-> "idle", data |-> data, runs |-> 0, sends |-> 0, done |-> 0] :
                      data \in RenderDatas }

\* The driver starts: wg.Done is deferred and getRenderData is called.
BatchStart ==
    /\ batch.pc = "idle"
    /\ batch.runs < MaxBatchRuns
    /\ \E driver \in Drivers, targetLang \in RenderLangs, loadFails \in BOOLEAN :
          batch' = [pc |-> IF loadFails THEN "sending" ELSE "loop",
                    data |-> batch.data, runs |-> batch.runs,
                    sends |-> batch.sends, done |-> batch.done,
                    driver |-> driver, lang |-> targetLang, loadFails |-> loadFails,
                    i |-> 1, results |-> <<>>,
                    pending |-> IF loadFails
                                THEN Wrapf("unable to read policies",
                                           "unable to get render data for translation", "")
                                ELSE NilErr]
    /\ UNCHANGED <<renVars, secVars, codecVars, tplVars, selVars, provVars, wkVars, joinVars>>

\* One iteration: renderTranslatedDocument for the next document.
BatchDocument ==
    /\ batch.pc = "loop"
    /\ batch.i <= Len(worklist(batch.data))
    /\ \E input \in RenderInputs :
        LET item == worklist(batch.data)[batch.i]
            r == renderTranslatedDocument(lastModified, outDir, item.doc.FullPath,
                     item.doc.OutputFilename, docs[item.doc], OutputDir, batch.lang,
                     input[1], driverFormat(batch.driver), input[2])
        IN /\ lastModified' = r.records
           /\ outDir' = r.files
           /\ batch' = afterDocument(batch, item, r.err)
    /\ UNCHANGED <<docs, inv, secVars, codecVars, tplVars, selVars, provVars, wkVars, joinVars>>

\* The loops are over: nil is to be sent.
BatchLoopEnd ==
    /\ batch.pc = "loop"
    /\ batch.i > Len(worklist(batch.data))
    /\ batch' = [batch EXCEPT !.pc = "sending", !.pending = NilErr]
    /\ UNCHANGED <<renVars, secVars, codecVars, tplVars, selVars, provVars, wkVars, joinVars>>

\* errOutputCh <- pending: the receiver takes the value.
BatchSend ==
    /\ batch.pc = "sending"
    /\ batch' = [batch EXCEPT !.pc = "returning", !.sends = batch.sends + 1]
    /\ UNCHANGED <<renVars, secVars, codecVars, tplVars, selVars, provVars, wkVars, joinVars>>

\* The driver returns and the deferred wg.Done runs.
BatchReturn ==
    /\ batch.pc = "returning"
    /\ batch' = [pc |-> "idle", data |-> batch.data, runs |-> batch.runs + 1,
                 sends |-> batch.sends, done |-> batch.done + 1]
    /\ UNCHANGED <<renVars, secVars, codecVars, tplVars, selVars, provVars, wkVars, joinVars>>

BatchNext == BatchStart \/ BatchDocument \/ BatchLoopEnd \/ BatchSend \/ BatchReturn

(***************************************************************************)
(* renderTranslatedDocument in two goroutines (the PDF and the HTML batch  *)
(* of one run).  The staleness check, the recording and the pipeline body  *)
(* are separate steps of a worker; the records and the output directory    *)
(* are shared.                                                             *)
(***************************************************************************)
Workers == { "w1", "w2" }

WorkerFormats == { "pdf", "html" }

WkIdle == wk = <<>>

NewWorker(d, f) ==
    [pc |-> "start", doc |-> d, format |-> f, passed |-> FALSE, err |-> "nil",
     needs |-> {}, clobbered |-> FALSE]

WkInit ==
    /\ docs = [d \in Documents |-> 1]
    /\ lastModified = <<>>
    /\ outDir = {}
    /\ inv = [last |-> NoInvocation, ran |-> {}, again |-> FALSE]
    /\ wk \in [Workers -> { NewWorker(d, f) : d \in Documents, f \in WorkerFormats }]

preprocessedPathOf(w) == PathJoin(OutputDir, wk[w].doc.OutputFilename \o DotMd)

translatedPathOf(w) == PathJoin(OutputDir, wk[w].doc.OutputFilename \o <<"_">> \o PtBR \o DotMd)

\* The workers after worker w has moved to record mine and has written or
\* removed the files of touched: wk[v].needs holds the intermediate files
\* worker v has written and has still to read or render, and a worker one of
\* whose needed files another worker touches is marked clobbered.
Touch(w, mine, touched) ==
    [v \in Workers |->
        IF v = w THEN mine
        ELSE IF wk[v].needs \cap touched # {} THEN [wk[v] EXCEPT !.clobbered = TRUE]
        ELSE wk[v]]

\* if !isNewer(doc.FullPath, doc.ModifiedAt) { return nil }
WorkerCheck(w) ==
    /\ wk[w].pc = "start"
    /\ wk' = [wk EXCEPT ![w].pc =
                 IF isNewer(lastModified, wk[w].doc.FullPath, docs[wk[w].doc])
                 THEN "record" ELSE "done",
              ![w].passed = isNewer(lastModified, wk[w].doc.FullPath, docs[wk[w].doc])]
    /\ UNCHANGED <<renVars, secVars, codecVars, tplVars, selVars, provVars, batchVars, joinVars>>

\* recordModified(doc.FullPath, doc.ModifiedAt)
WorkerRecord(w) ==
    /\ wk[w].pc = "record"
    /\ lastModified' = recordModified(lastModified, wk[w].doc.FullPath, docs[wk[w].doc])
    /\ wk' = [wk EXCEPT ![w].pc = "preprocess"]
    /\ UNCHANGED <<docs, outDir, inv, secVars, codecVars, tplVars, selVars, provVars, batchVars, joinVars>>

\* preprocessDoc writes <stem>.md, or fails.
WorkerPreprocess(w) ==
    /\ wk[w].pc = "preprocess"
    /\ \/ /\ outDir' = outDir \cup {preprocessedPathOf(w)}
          /\ wk' = Touch(w, [wk[w] EXCEPT !.pc = "read", !.needs = {preprocessedPathOf(w)}],
                         {preprocessedPathOf(w)})
       \/ /\ outDir' = outDir
          /\ wk' = [wk EXCEPT ![w].pc = "done",
                              ![w].err = "unable to preprocess document for translation"]
    /\ UNCHANGED <<docs, lastModified, inv, secVars, codecVars, tplVars, selVars, provVars, batchVars, joinVars>>

\* ioutil.ReadFile(preprocessedPath): fails when the file is not there.
WorkerRead(w) ==
    /\ wk[w].pc = "read"
    /\ wk' = [wk EXCEPT ![w].pc = IF preprocessedPathOf(w) \in outDir
                                  THEN "translate" ELSE "done",
                        ![w].err = IF preprocessedPathOf(w) \in outDir THEN "nil"
                                   ELSE "unable to read preprocessed document",
                        ![w].needs = {}]
    /\ UNCHANGED <<renVars, secVars, codecVars, tplVars, selVars, provVars, batchVars, joinVars>>

\* TranslateDocument, then ioutil.WriteFile(translatedPath), or the
\* translation fails.
WorkerTranslate(w) ==
    /\ wk[w].pc = "translate"
    /\ \/ /\ outDir' = outDir \cup {translatedPathOf(w)}
          /\ wk' = Touch(w, [wk[w] EXCEPT !.pc = "render", !.needs = {translatedPathOf(w)}],
                         {translatedPathOf(w)})
       \/ /\ outDir' = outDir
          /\ wk' = [wk EXCEPT ![w].pc = "done",
                              ![w].err = "translation failed for document"]
    /\ UNCHANGED <<docs, lastModified, inv, secVars, codecVars, tplVars, selVars, provVars, batchVars, joinVars>>

\* generateTranslatedPDF or generateTranslatedHTML: the renderer, when one is
\* called, reads translatedPath and fails when the file is not there.
WorkerRender(w) ==
    /\ wk[w].pc = "render"
    /\ \E fault \in {"none", "render"} :
        LET gen == IF wk[w].format = "pdf"
                   THEN generateTranslatedPDF(translatedPathOf(w), OutputDir,
                            wk[w].doc.OutputFilename, PtBR,
                            IF translatedPathOf(w) \in outDir THEN fault ELSE "render")
                   ELSE generateTranslatedHTML(translatedPathOf(w), OutputDir,
                            wk[w].doc.OutputFilename, PtBR, fault)
        IN /\ outDir' = IF gen.err = "nil"
                        THEN outDir \cup { gen.calls[k].output : k \in 1..Len(gen.calls) }
                        ELSE outDir
           /\ wk' = [wk EXCEPT ![w].pc = IF gen.err = "nil" THEN "cleanup" ELSE "done",
                               ![w].err = gen.err,
                               ![w].needs = {}]
    /\ UNCHANGED <<docs, lastModified, inv, secVars, codecVars, tplVars, selVars, provVars, batchVars, joinVars>>

\* os.Remove(preprocessedPath); os.Remove(translatedPath); return nil
WorkerCleanup(w) ==
    /\ wk[w].pc = "cleanup"
    /\ outDir' = removeIntermediates(outDir, preprocessedPathOf(w), translatedPathOf(w))
    /\ wk' = Touch(w, [wk[w] EXCEPT !.pc = "done"],
                   {preprocessedPathOf(w), translatedPathOf(w)})
    /\ UNCHANGED <<docs, lastModified, inv, secVars, codecVars, tplVars, selVars, provVars, batchVars, joinVars>>

WkNext ==
    \E w \in Workers :
        \/ WorkerCheck(w) \/ WorkerRecord(w) \/ WorkerPreprocess(w) \/ WorkerRead(w)
        \/ WorkerTranslate(w) \/ WorkerRender(w) \/ WorkerCleanup(w)

(***************************************************************************)
(* The batch drivers started together.  Each driver is a goroutine that    *)
(* runs pdfTranslated or htmlTranslated; they share one error channel with *)
(* a single slot and one sync.WaitGroup, and the caller waits on the       *)
(* WaitGroup before it takes anything from the channel.  The channel, the  *)
(* WaitGroup and the caller are the scheduling model of the specification; *)
(* a document invocation is reduced to the error it returns.               *)
(***************************************************************************)
DocumentErrors == { "nil", "pandoc failed" }

NewDriver == [pc |-> "start", i |-> 1, results |-> <<>>, pending |-> NilErr]

JoinIdle == jn = [caller |-> "idle"]

JoinInit ==
    jn \in { [started |-> started, data |-> data,
              drv |-> [d \in started |-> NewDriver],
              ch |-> <<>>, wg |-> Cardinality(started),
              caller |-> "waiting", received |-> <<>>] :
                started \in (SUBSET Drivers) \ {{}}, data \in RenderDatas }

\* defer wg.Done(); getRenderData()
DriverStart(d) ==
    /\ d \in jn.started
    /\ jn.drv[d].pc = "start"
    /\ \E loadFails \in BOOLEAN :
          jn' = [jn EXCEPT !.drv[d] =
                    IF loadFails
                    THEN [@ EXCEPT !.pc = "sending",
                                   !.pending = Wrapf("unable to read policies",
                                       "unable to get render data for translation", "")]
                    ELSE [@ EXCEPT !.pc = "loop"]]
    /\ UNCHANGED <<secVars, codecVars, tplVars, renVars, selVars, provVars, batchVars, wkVars>>

\* One iteration of the loops.
DriverDocument(d) ==
    /\ d \in jn.started
    /\ jn.drv[d].pc = "loop"
    /\ jn.drv[d].i <= Len(worklist(jn.data))
    /\ \E err \in DocumentErrors :
          jn' = [jn EXCEPT !.drv[d] =
                    afterDocument(@, worklist(jn.data)[jn.drv[d].i], err)]
    /\ UNCHANGED <<secVars, codecVars, tplVars, renVars, selVars, provVars, batchVars, wkVars>>

\* The loops are over: nil is to be sent.
DriverLoopEnd(d) ==
    /\ d \in jn.started
    /\ jn.drv[d].pc = "loop"
    /\ jn.drv[d].i > Len(worklist(jn.data))
    /\ jn' = [jn EXCEPT !.drv[d].pc = "sending", !.drv[d].pending = NilErr]
    /\ UNCHANGED <<secVars, codecVars, tplVars, renVars, selVars, provVars, batchVars, wkVars>>

\* errOutputCh <- pending: the send goes through while the slot is free.
DriverSend(d) ==
    /\ d \in jn.started
    /\ jn.drv[d].pc = "sending"
    /\ jn.ch = <<>>
    /\ jn' = [jn EXCEPT !.ch = <<jn.drv[d].pending>>, !.drv[d].pc = "returning"]
    /\ UNCHANGED <<secVars, codecVars, tplVars, renVars, selVars, provVars, batchVars, wkVars>>

\* The driver returns and the deferred wg.Done runs.
DriverReturn(d) ==
    /\ d \in jn.started
    /\ jn.drv[d].pc = "returning"
    /\ jn' = [jn EXCEPT !.wg = jn.wg - 1, !.drv[d].pc = "done"]
    /\ UNCHANGED <<secVars, codecVars, tplVars, renVars, selVars, provVars, batchVars, wkVars>>

\* wg.Wait() returns once every driver has called wg.Done.
CallerJoin ==
    /\ jn.caller = "waiting"
    /\ jn.wg = 0
    /\ jn' = [jn EXCEPT !.caller = "joined"]
    /\ UNCHANGED <<secVars, codecVars, tplVars, renVars, selVars, provVars, batchVars, wkVars>>

\* After the join the caller takes what is on the channel.
CallerReceive ==
    /\ jn.caller = "joined"
    /\ jn.ch # <<>>
    /\ jn' = [jn EXCEPT !.ch = <<>>, !.received = Append(jn.received, jn.ch[1])]
    /\ UNCHANGED <<secVars, codecVars, tplVars, renVars, selVars, provVars, batchVars, wkVars>>

JoinNext ==
    \/ \E d \in Drivers :
          \/ DriverStart(d) \/ DriverDocument(d) \/ DriverLoopEnd(d)
          \/ DriverSend(d) \/ DriverReturn(d)
    \/ CallerJoin
    \/ CallerReceive

NewIdle == SelIdle /\ ProvIdle /\ BatchIdle /\ WkIdle /\ JoinIdle

(***************************************************************************)
(* The specifications: one per component.                                  *)
(***************************************************************************)
InitSections == SecInit /\ CodecIdle /\ TplIdle /\ RenIdle /\ NewIdle

SpecSections == InitSections /\ [][SecNext]_vars

InitCodec == SecIdle /\ CodecInit /\ TplIdle /\ RenIdle /\ NewIdle

SpecCodec == InitCodec /\ [][CodecNext]_vars

InitTemplates == SecIdle /\ CodecIdle /\ TplInit /\ RenIdle /\ NewIdle

SpecTemplates == InitTemplates /\ [][TplNext]_vars

InitRender == SecIdle /\ CodecIdle /\ TplIdle /\ RenInit /\ NewIdle

SpecRender == InitRender /\ [][RenNext]_vars

InitProvider ==
    SecIdle /\ CodecIdle /\ TplIdle /\ RenIdle /\ SelIdle /\ ProvIdle /\ BatchIdle /\ WkIdle /\ JoinIdle

SpecProvider == InitProvider /\ [][ProvNext]_vars

InitSelect ==
    SecIdle /\ CodecIdle /\ TplIdle /\ RenIdle /\ SelInit /\ ProvIdle /\ BatchIdle /\ WkIdle /\ JoinIdle

SpecSelect == InitSelect /\ [][SelNext]_vars

InitBatch ==
    SecIdle /\ CodecIdle /\ TplIdle /\ BatchInit /\ SelIdle /\ ProvIdle /\ WkIdle /\ JoinIdle

SpecBatch == InitBatch /\ [][BatchNext]_vars

InitWorkers ==
    SecIdle /\ CodecIdle /\ TplIdle /\ WkInit /\ SelIdle /\ ProvIdle /\ BatchIdle /\ JoinIdle

SpecWorkers == InitWorkers /\ [][WkNext]_vars

InitJoin ==
    SecIdle /\ CodecIdle /\ TplIdle /\ RenIdle /\ SelIdle /\ ProvIdle /\ BatchIdle /\ WkIdle /\ JoinInit

\* Every goroutine that can take a step is eventually scheduled.
SpecJoin == InitJoin /\ [][JoinNext]_vars /\ WF_vars(JoinNext)

(***************************************************************************)
(* Properties of the section classifier and of TranslateDocument, under    *)
(* SpecSections.                                                           *)
(***************************************************************************)
\* C1: for every body, joining the segments of extractSections with one
\* newline between consecutive segments gives back the body exactly.
C1_SegmentRoundTrip ==
    td.pc = "split" => Join(td.sections, NL) = content

\* A body with a whitespace-only line and two consecutive blank lines has
\* been split, and its segments join to it.
C1_Witness ==
    /\ td.pc = "split"
    /\ Contains(content, <<NL, NL, NL>>)
    /\ Contains(content, <<" ">>)
    /\ Len(td.sections) >= 3
    /\ Join(td.sections, NL) = content

AllPreserved(body) ==
    \A k \in 1..Len(extractSections(body)) : ~shouldTranslate(extractSections(body)[k])

\* C2: for a body all of whose segments are Preserved, TranslateDocument with
\* a supported provider kind returns the body unchanged, without error, and
\* calls the provider zero times.
C2_PreservedInvariance ==
    (/\ td.pc = "done"
     /\ NewProvider(td.provider) # "unsupported"
     /\ AllPreserved(content))
    => /\ td.err = "nil"
       /\ td.out = content
       /\ td.sent = <<>>

\* A body of frontmatter delimiter, blank and whitespace-only lines and a
\* code fence, all Preserved, has been translated to itself.
C2_Witness ==
    /\ td.pc = "done"
    /\ NewProvider(td.provider) # "unsupported"
    /\ AllPreserved(content)
    /\ Contains(content, Dashes)
    /\ Contains(content, Fence)
    /\ Contains(content, <<" ">>)
    /\ td.out = content
    /\ td.sent = <<>>

BodyLines == Split(content, NL)

IsDelimiterLine(l) == TrimSpace(l) = Dashes

IsFenceLine(l) == HasPrefix(TrimSpace(l), Fence)

IsTableRow(l) == HasPrefix(TrimSpace(l), <<"|">>)

\* Line i belongs to the frontmatter: no delimiter line comes before it, and
\* a delimiter line is at i or after it.
InFrontmatter(i) ==
    /\ \A j \in 1..(i - 1) : ~IsDelimiterLine(BodyLines[j])
    /\ \E j \in i..Len(BodyLines) : IsDelimiterLine(BodyLines[j])

\* Line i is a fence line, or an odd number of fence lines comes before it.
InCodeBlock(i) ==
    \/ IsFenceLine(BodyLines[i])
    \/ Cardinality({ j \in 1..(i - 1) : IsFenceLine(BodyLines[j]) }) % 2 = 1

\* Line i is a row of a table: a run of rows that holds a separator row.
InTable(i) ==
    /\ IsTableRow(BodyLines[i])
    /\ \E j \in 1..Len(BodyLines) :
          /\ IsTableRow(BodyLines[j])
          /\ Contains(BodyLines[j], Dashes)
          /\ \A k \in 1..Len(BodyLines) :
                (k >= i /\ k <= j) \/ (k >= j /\ k <= i) => IsTableRow(BodyLines[k])

\* The segment that holds line i: the run of non-empty lines around it, or
\* the empty line itself.
SegmentOf(i) ==
    IF BodyLines[i] = <<>> THEN <<>>
    ELSE LET lo == CHOOSE a \in 1..i :
                      /\ \A k \in a..i : BodyLines[k] # <<>>
                      /\ (a = 1 \/ BodyLines[a - 1] = <<>>)
             hi == CHOOSE b \in i..Len(BodyLines) :
                      /\ \A k \in i..b : BodyLines[k] # <<>>
                      /\ (b = Len(BodyLines) \/ BodyLines[b + 1] = <<>>)
         IN Join(SubSeq(BodyLines, lo, hi), NL)

\* C3: every line of the frontmatter, of a table or of a fenced code block
\* lies in a segment classified Preserved, and TranslateDocument does not
\* send that segment to the provider.
C3_ProtectedLinesPreserved ==
    td.pc = "done" /\ NewProvider(td.provider) # "unsupported"
    => \A i \in 1..Len(BodyLines) :
          InFrontmatter(i) \/ InTable(i) \/ InCodeBlock(i)
          => /\ ~shouldTranslate(SegmentOf(i))
             /\ \A k \in 1..Len(td.sent) : td.sent[k] # SegmentOf(i)

(***************************************************************************)
(* Properties of the filename codec, under SpecCodec.                      *)
(***************************************************************************)
\* The tag is two characters long or contains a hyphen.
TagShape == Len(tag) = 2 \/ Contains(tag, <<"-">>)

\* C4 as stated: for every filename that is not detected as tagged and every
\* tag that is two characters long or contains a hyphen, the encoded name is
\* detected as tagged and decodes to the tag.
C4_CodecInverseAnyName ==
    (/\ codec.pc = "decoded"
     /\ isTemplateFile(fname)
     /\ TagShape)
    => /\ ~codec.isTemplate
       /\ codec.lang = tag

\* C4 as amended: the same, for a filename that has an extension and a tag
\* of at least two characters that holds no dot.
C4_CodecInverse ==
    (/\ codec.pc = "decoded"
     /\ isTemplateFile(fname)
     /\ Ext(fname) # <<>>
     /\ TagShape
     /\ Len(tag) >= 2
     /\ ~Contains(tag, <<".">>))
    => /\ ~codec.isTemplate
       /\ codec.lang = tag

\* A name with an extension has been encoded with a hyphenated tag and
\* decoded to that tag.
C4_Witness ==
    /\ codec.pc = "decoded"
    /\ isTemplateFile(fname)
    /\ Ext(fname) # <<>>
    /\ Len(tag) = 3
    /\ Contains(tag, <<"-">>)
    /\ ~Contains(tag, <<".">>)
    /\ ~codec.isTemplate
    /\ codec.lang = tag

(***************************************************************************)
(* Properties of translate-templates, under SpecTemplates.                 *)
(***************************************************************************)
\* The pair just processed had a target at least as new as its source: no
\* provider call was made for it and its target is as it was.
UpToDatePairSkipped ==
    hist.last.n > 0 /\ hist.last.upToDate
    => /\ ~hist.last.called
       /\ ~hist.last.wrote
       /\ ~hist.last.changed

\* Every configured language is a tag the codec detects: without a dot, and
\* two characters long or longer with a hyphen.
TagsDetectable ==
    \A k \in 1..Len(cfg.Languages) :
        /\ Len(cfg.Languages[k]) >= 2
        /\ ~Contains(cfg.Languages[k], <<".">>)
        /\ Len(cfg.Languages[k]) = 2 \/ Contains(cfg.Languages[k], <<"-">>)

\* No template carries a modification time later than the time of the
\* successful run before this one.
SourcesNotAhead == \A f \in DOMAIN fs : fs[f].mtime <= hist.prevClock

\* C5 as stated: an up-to-date pair is skipped without provider call and
\* without change of its target, and a run directly after a fully successful
\* run of the same command, with no source modified in between, makes no
\* provider call and writes no file.
C5_SkipAnyLanguage ==
    /\ UpToDatePairSkipped
    /\ hist.repeat => hist.calls = 0 /\ hist.writes = 0

\* C5 as amended: the same, the second half for configured languages that
\* the codec detects and templates whose modification times are not later
\* than the time of the first run.
C5_Skip ==
    /\ UpToDatePairSkipped
    /\ hist.repeat /\ TagsDetectable /\ SourcesNotAhead
       => hist.calls = 0 /\ hist.writes = 0

\* The second run over two files and two languages has ended: four pairs,
\* all skipped.
C5_Witness ==
    /\ run.pc = "done"
    /\ run.err = "nil"
    /\ hist.repeat
    /\ TagsDetectable
    /\ SourcesNotAhead
    /\ hist.last.n = 4
    /\ hist.last.upToDate
    /\ ~hist.last.called
    /\ hist.calls = 0
    /\ hist.writes = 0

ConfigErrors ==
    { "translation not enabled in comply.yml",
      "no languages configured for translation",
      "no translation provider specified" }

\* The translation block is absent or not enabled, or no language is
\* configured, or neither the override nor the configuration names a provider.
ConfigInvalid ==
    \/ cfg.isNil
    \/ ~cfg.Enabled
    \/ cfg.Languages = <<>>
    \/ (run.provider = <<>> /\ cfg.Provider = <<>>)

\* C8: with an invalid configuration the run ends with a configuration error
\* and has read no template, called no provider and written no file; with a
\* valid one, a non-empty override is the provider used.
C8_ConfigErrorsFirst ==
    /\ (run.pc = "done" /\ ConfigInvalid)
       => /\ run.err \in ConfigErrors
          /\ ~hist.fsAccess
          /\ hist.last.n = 0
          /\ hist.calls = 0
          /\ hist.writes = 0
    /\ (run.pc \in {"loop", "done"} /\ ~ConfigInvalid /\ run.provider # <<>>)
       => run.providerToUse = run.provider

\* A run with languages configured and no provider anywhere has ended with
\* the provider error, before any access to the templates.
C8_Witness ==
    /\ run.pc = "done"
    /\ ~cfg.isNil
    /\ cfg.Enabled
    /\ cfg.Languages # <<>>
    /\ cfg.Provider = <<>>
    /\ run.provider = <<>>
    /\ run.err = "no translation provider specified"
    /\ ~hist.fsAccess
    /\ hist.writes = 0

\* C9: a run with translation enabled, languages configured and a provider
\* kind that is none of the three supported ends with an error, whatever the
\* file set, and writes no file.
C9_UnknownProviderFails ==
    (/\ run.pc = "done"
     /\ ~ConfigInvalid
     /\ NewProvider(run.providerToUse) = "unsupported")
    => /\ run.err # "nil"
       /\ hist.writes = 0

\* The pair processed as number n, files outer and languages inner.
PairInOrder ==
    hist.last.n > 0
    => LET L == Len(run.languages) IN
       /\ hist.last.file = run.filesToTranslate[((hist.last.n - 1) \div L) + 1]
       /\ hist.last.lang = run.languages[((hist.last.n - 1) % L) + 1]

\* The run stops at the first failing pair and names it; the targets written
\* for the pairs before it remain.
FailFast ==
    /\ PairInOrder
    /\ run.pc = "loop" => hist.errs = 0 /\ run.err = "nil"
    /\ run.pc = "done" /\ hist.last.n > 0
       => /\ hist.errs = (IF run.err = "nil" THEN 0 ELSE 1)
          /\ run.err # "nil"
             => /\ hist.last.err # "nil"
                /\ run.errFile = hist.last.file
                /\ run.errLang = hist.last.lang
    /\ \A t \in hist.written : t \in DOMAIN fs /\ fs[t].content = "translated"

\* C10 as stated: fail-fast, and the target of the failing pair is neither
\* created nor modified.
C10_FailFastTargetUntouched ==
    /\ FailFast
    /\ hist.last.n > 0 /\ hist.last.err # "nil" => ~hist.last.changed

\* C10 as amended: fail-fast, and the target of the failing pair is neither
\* created nor modified unless the failure is that of writing the target.
C10_FailFast ==
    /\ FailFast
    /\ (/\ hist.last.n > 0
        /\ hist.last.err # "nil"
        /\ hist.last.err # "unable to write translated file")
       => ~hist.last.changed

\* The third pair failed in its provider call, after the two pairs of the
\* first file were written: the run has ended, naming the third pair.
C10_Witness ==
    /\ run.pc = "done"
    /\ run.err = "failed to translate"
    /\ hist.last.n = 3
    /\ hist.last.called
    /\ hist.last.err = "translation failed"
    /\ ~hist.last.changed
    /\ Cardinality(hist.written) = 2
    /\ run.errFile = FileB
    /\ run.errLang = Es

(***************************************************************************)
(* Properties of translate-for-rendering, under SpecRender.                *)
(***************************************************************************)
\* C6: an invocation for path p at modification time T runs the pipeline
\* only if no earlier invocation for p ran it at a time >= T; otherwise it
\* returns success with no file written or deleted, no provider call, no
\* renderer call and the staleness record unchanged.  An invocation that runs
\* the pipeline leaves (p, T) recorded, also when it fails, and no pipeline
\* body runs twice for the same (p, T).
C6_StalenessGate ==
    /\ ~inv.again
    /\ ~inv.last.none
       => /\ inv.last.skipped <=> inv.last.earlier
          /\ inv.last.skipped
             => /\ inv.last.err = "nil"
                /\ inv.last.sameFiles
                /\ inv.last.sameRecords
                /\ inv.last.providerCalls = 0
                /\ inv.last.rendererCalls = <<>>
          /\ ~inv.last.skipped
             => /\ inv.last.doc.FullPath \in DOMAIN lastModified
                /\ lastModified[inv.last.doc.FullPath] = inv.last.modifiedAt

\* A retry for the same (p, T) after a failed first attempt, whose
\* preprocessed file is still in the output directory, has been skipped.
C6_Witness ==
    /\ ~inv.last.none
    /\ inv.last.skipped
    /\ <<inv.last.doc.FullPath, inv.last.modifiedAt>> \in inv.ran
    /\ PathJoin(OutputDir, inv.last.doc.OutputFilename \o DotMd) \in outDir
    /\ inv.last.err = "nil"
    /\ inv.last.providerCalls = 0
    /\ inv.last.sameFiles

\* The extension of the artifact of an output format.
FormatExt(format) == IF format = "pdf" THEN DotPdf ELSE DotHtml

\* C7: for pdf and for html, an invocation that is not skipped and returns
\* success has called the renderer exactly once, on the language-tagged
\* markdown file, for the artifact <stem>_<language>.<ext> in the output
\* directory.
C7_RendererInvokedOnce ==
    (/\ ~inv.last.none
     /\ ~inv.last.skipped
     /\ inv.last.err = "nil"
     /\ inv.last.format \in {"pdf", "html"})
    => LET tagged == inv.last.doc.OutputFilename \o <<"_">> \o inv.last.lang IN
       /\ Len(inv.last.rendererCalls) = 1
       /\ inv.last.rendererCalls[1].input = PathJoin(OutputDir, tagged \o DotMd)
       /\ inv.last.rendererCalls[1].output
             = PathJoin(OutputDir, tagged \o FormatExt(inv.last.format))

(***************************************************************************)
(* Properties of the provider adapters, under SpecProvider.                *)
(***************************************************************************)
\* The status of the answer is a success status.
SuccessStatus == prov.status \in {200, 201}

\* C11: for each variant, an answer with a non-success status makes
\* Translate return an error that carries the status and the raw body, and
\* no text.
C11_StatusErrorCarriesStatusAndBody ==
    (prov.pc = "done" /\ ~prov.transportFails /\ ~SuccessStatus)
    => /\ ~prov.result.panic
       /\ ~prov.result.text.ok
       /\ prov.result.err # NilError
       /\ \E k \in 1..Len(prov.result.err.args) :
             prov.result.err.args[k] = ResponseBodies[prov.body].raw
       /\ \E k \in 1..Len(prov.result.err.args) :
             prov.result.err.args[k] = Itoa(prov.status)

\* The body of the answer has the shape the variant expects.
ExpectedShape ==
    LET parsed == ResponseBodies[prov.body].parsed IN
    IF prov.variant = "ollama"
    THEN Field(parsed, "response").kind = "string"
    ELSE IF prov.variant = "anthropic"
    THEN /\ Field(parsed, "content").kind = "array"
         /\ Len(Field(parsed, "content").items) > 0
         /\ Field(Field(parsed, "content").items[1], "text").kind = "string"
    ELSE /\ Field(parsed, "choices").kind = "array"
         /\ Len(Field(parsed, "choices").items) > 0
         /\ Field(Field(Field(parsed, "choices").items[1], "message"),
                  "content").kind = "string"

\* C17: for each variant, a 200 answer whose body does not have the expected
\* shape makes Translate return the "unexpected response format" error: no
\* text, and no panic.
C17_MalformedBodyIsUnexpectedFormat ==
    (/\ prov.pc = "done"
     /\ ~prov.transportFails
     /\ prov.status = http_StatusOK
     /\ ~ExpectedShape)
    => /\ ~prov.result.panic
       /\ ~prov.result.text.ok
       /\ prov.result.err = Errorf("unexpected response format", <<>>)

\* C20: the chat-completion variant sends the key as a bearer token in the
\* Authorization header; the message variant sends it in the x-api-key
\* header, not in Authorization, with the protocol-version header; the local
\* variant sends no authentication header.
C20_RequestAuthentication ==
    prov.pc \in {"sent", "done"}
    => /\ prov.variant = "openai"
          => /\ "Authorization" \in DOMAIN prov.headers
             /\ prov.headers["Authorization"] = <<"Bearer ", prov.APIKey>>
       /\ prov.variant = "anthropic"
          => /\ "x-api-key" \in DOMAIN prov.headers
             /\ prov.headers["x-api-key"] = <<prov.APIKey>>
             /\ "Authorization" \notin DOMAIN prov.headers
             /\ "anthropic-version" \in DOMAIN prov.headers
       /\ prov.variant = "ollama"
          => /\ "Authorization" \notin DOMAIN prov.headers
             /\ "x-api-key" \notin DOMAIN prov.headers

(***************************************************************************)
(* Properties of the file selection, under SpecSelect.                     *)
(***************************************************************************)
\* The second-to-last dot-separated part of a name of at least three parts.
SecondToLast(name) == Split(name, ".")[Len(Split(name, ".")) - 1]

\* Tagged, as the claim words the detection: at least three parts, and the
\* second-to-last part contains a hyphen or is exactly two characters long.
TaggedAsWorded(name) ==
    /\ Len(Split(name, ".")) >= 3
    /\ (Contains(SecondToLast(name), <<"-">>) \/ Len(SecondToLast(name)) = 2)

\* Tagged, with the length condition: the second-to-last part has at least
\* two characters as well.
TaggedTwoOrMore(name) == TaggedAsWorded(name) /\ Len(SecondToLast(name)) >= 2

EndsMdNoReservedPrefix(name) ==
    /\ HasSuffix(name, DotMd)
    /\ ~HasPrefix(name, README)
    /\ ~HasPrefix(name, TODO)

\* The selection made is the expected one: a directory walk returns exactly
\* the expected files and no error; a single file is returned alone when it
\* is expected and is an error otherwise.
SelectionIs(expected) ==
    sel.pc = "done" =>
        IF sel.arg = "dir"
        THEN /\ sel.result.err = "nil"
             /\ { sel.result.files[i] : i \in 1..Len(sel.result.files) } = expected
        ELSE IF sel.path \in expected
        THEN sel.result = [files |-> <<sel.path>>, err |-> "nil"]
        ELSE sel.result.err # "nil" /\ sel.result.files = <<>>

\* C12 as worded: a file is selected exactly when its name ends in .md, does
\* not start with README or TODO, and it has fewer than three dot-separated
\* parts or its second-to-last part neither contains a hyphen nor is exactly
\* two characters long; a single ineligible file is an error.
C12_SelectionAsWorded ==
    sel.pc = "done" =>
        SelectionIs({ f \in DOMAIN sel.files :
                        EndsMdNoReservedPrefix(Base(f)) /\ ~TaggedAsWorded(Base(f)) })

\* C12, amended: a file is selected exactly when its name ends in .md, does
\* not start with README or TODO, and it has fewer than three dot-separated
\* parts, or its second-to-last part is shorter than two characters, or that
\* part neither contains a hyphen nor is exactly two characters long; of
\* patch.md and patch.pt-BR.md only patch.md is selected, and a single
\* ineligible file given as the path is an error.
C12_Selection ==
    sel.pc = "done" =>
        /\ SelectionIs({ f \in DOMAIN sel.files :
                           EndsMdNoReservedPrefix(Base(f)) /\ ~TaggedTwoOrMore(Base(f)) })
        /\ sel.arg = "dir" =>
              /\ \E i \in 1..Len(sel.result.files) : sel.result.files[i] = InPolicies(PatchMd)
              /\ \A i \in 1..Len(sel.result.files) : sel.result.files[i] # InPolicies(PatchPtBRMd)

\* A walk of the directory that holds a.-.md (a one-character hyphen part),
\* patch.md and patch.pt-BR.md has selected the first two and not the third.
C12_Witness ==
    /\ sel.pc = "done"
    /\ sel.arg = "dir"
    /\ cand = <<"a", ".", "-">> \o DotMd
    /\ sel.result.files = <<InPolicies(cand), InPolicies(PatchMd)>>

(***************************************************************************)
(* Properties of the batch drivers, under SpecBatch.                       *)
(***************************************************************************)
\* The first error the invocation met: that of the load, or that of the
\* first document invocation that failed; NilErr when there was none.
FirstError ==
    IF batch.loadFails
    THEN Wrapf("unable to read policies", "unable to get render data for translation", "")
    ELSE LET failed == { k \in 1..Len(batch.results) : batch.results[k] # "nil" } IN
         IF failed = {} THEN NilErr
         ELSE LET k == CHOOSE x \in failed : \A y \in failed : x <= y
                  item == worklist(batch.data)[k]
              IN Wrapf(batch.results[k], wrapMessage(item.kind), item.doc.Name)

C14_LaterDocumentsProcessed ==
    (batch.pc = "returning" /\ ~batch.loadFails) =>
        /\ Len(batch.results) = Len(worklist(batch.data))
        /\ (\E k \in 1..Len(batch.results) : batch.results[k] # "nil") =>
              batch.pending # NilErr

(***************************************************************************)
(* Properties of concurrent workers, under SpecWorkers.                    *)
(***************************************************************************)
\* C15: of two concurrent invocations for the same source path and
\* modification time, at most one passes the isNewer check and runs the
\* pipeline body.
C15_AtMostOneWinner ==
    \A v, w \in Workers :
        (v # w /\ wk[v].doc.FullPath = wk[w].doc.FullPath) =>
            ~(wk[v].passed /\ wk[w].passed)

(***************************************************************************)
(* Properties of the intermediate files and of the output format, under    *)
(* SpecRender.                                                             *)
(***************************************************************************)
PreprocessedOf(doc) == PathJoin(OutputDir, doc.OutputFilename \o DotMd)

TranslatedOf(doc, lang) == PathJoin(OutputDir, doc.OutputFilename \o <<"_">> \o lang \o DotMd)

C18_UnsupportedFormatIsError ==
    (~inv.last.none /\ ~inv.last.skipped /\ inv.last.format \notin {"pdf", "html"}) =>
        /\ inv.last.err # "nil"
        /\ inv.last.noneDeleted

(***************************************************************************)
(* The translation of the rendering path, under SpecSections:              *)
(* renderTranslatedDocument calls TranslateDocument on the content of the  *)
(* intermediate file.                                                      *)
(***************************************************************************)
\* C19: a document of the rendering path is translated with one provider
\* request carrying the whole file in the structured prompt, and the text
\* written is the cleaned response: the text TranslateTemplateDirect gives
\* for the same content and provider response.
C19_RenderPathUsesStructuredPrompt ==
    (td.pc = "done" /\ td.err = "nil") =>
        \E targetLang \in TargetLangs :
            LET direct == TranslateTemplateDirect(content, targetLang, td.reply, 0) IN
            /\ td.sent = direct.sent
            /\ td.out = direct.out

(***************************************************************************)
(* The artifacts of a batch, under SpecBatch.                              *)
(***************************************************************************)
\* The rendered artifact of a document for a language and a driver.
ArtifactOf(doc, lang, driver) ==
    PathJoin(OutputDir, doc.OutputFilename \o <<"_">> \o lang
                          \o (IF driverFormat(driver) = "pdf" THEN DotPdf ELSE DotHtml))

\* C21: whenever a batch driver for language L and format F reports success
\* (nil), the artifact <stem>_<L>.<F> exists in the output directory for
\* every document of the three collections.
C21_SuccessMeansArtifacts ==
    (batch.pc = "returning" /\ batch.pending = NilErr) =>
        \A k \in 1..Len(worklist(batch.data)) :
            ArtifactOf(worklist(batch.data)[k].doc, batch.lang, batch.driver) \in outDir

(***************************************************************************)
(* The intermediate files of concurrent workers, under SpecWorkers.        *)
(***************************************************************************)
\* C22: of two concurrent invocations for the same document and output
\* directory, neither deletes or overwrites an intermediate file that the
\* other has written and has not yet finished reading or rendering.
C22_NoIntermediateClobbered ==
    \A v, w \in Workers :
        (v # w /\ wk[v].doc = wk[w].doc) => ~wk[v].clobbered /\ ~wk[w].clobbered

(***************************************************************************)
(* Termination of the batch drivers started together, under SpecJoin.      *)
(***************************************************************************)
\* C23: with two or more batch drivers started on one single-slot error
\* channel and a caller that waits for the join before it takes from the
\* channel, every driver eventually terminates and the join completes.
C23_JoinCompletes ==
    (Cardinality(jn.started) >= 2) =>
        <>(/\ jn.caller = "joined"
           /\ \A d \in jn.started : jn.drv[d].pc = "done")

(***************************************************************************)
(* The files translate-templates writes, under SpecTemplates.  A file of   *)
(* fs that the command has written holds "translated" or "partial"; the    *)
(* templates hold "source".                                                *)
(***************************************************************************)
WrittenFiles == { f \in DOMAIN fs : fs[f].content # "source" }

SourceTemplates == { f \in DOMAIN fs : fs[f].content = "source" }

\* Every configured language is a two-letter tag or a hyphenated one: two
\* characters, or parts joined by a hyphen (so at least two characters),
\* with no dot and no path separator in it.
LanguagesTwoLetterOrHyphenated ==
    /\ ~cfg.isNil
    /\ \A k \in 1..Len(cfg.Languages) :
          LET t == cfg.Languages[k] IN
          /\ Len(t) >= 2
          /\ Len(t) = 2 \/ Contains(t, <<"-">>)
          /\ ~Contains(t, <<".">>)
          /\ ~Contains(t, <<"/">>)

\* C24: for configured language tags that are two-letter or hyphenated,
\* translate-templates never creates, overwrites or deletes an untagged
\* source template: every file it has written is a sibling of a source, is
\* none of the files collected by a run, and is detected as tagged, so that
\* no run selects it as a translation source; and the sources are as they
\* were.
C24_WrittenFilesAreTagged ==
    LanguagesTwoLetterOrHyphenated =>
        /\ \A f \in WrittenFiles :
              /\ ~isTemplateFile(f)
              /\ \E src \in SourceTemplates : Dir(src) = Dir(f) /\ src # f
              /\ run.pc # "idle" =>
                    \A k \in 1..Len(run.filesToTranslate) : run.filesToTranslate[k] # f
        /\ run.pc # "idle" =>
              \A k \in 1..Len(run.filesToTranslate) :
                  run.filesToTranslate[k] \in SourceTemplates
        /\ hist.last.n > 0 =>
              /\ hist.last.file \in SourceTemplates
              /\ hist.last.target # hist.last.file

\* The second run over the policies directory is in its loop, the first
\* having written a.pt-BR.md, and has collected a.md and b.md only.
C24_Witness ==
    /\ LanguagesTwoLetterOrHyphenated
    /\ hist.runs = 2
    /\ run.pc = "loop"
    /\ run.path = PoliciesDir
    /\ generateTranslatedPath(FileA, PtBR) \in WrittenFiles
    /\ run.filesToTranslate = <<FileA, FileB>>

====
